---- MODULE Spec2Model ----
(***************************************************************************)
(* A model of the devdraw driver of shiny (shiny/driver/devdrawdriver):    *)
(* the LZ77 codec of lz77.go, the /dev/draw protocol client of drawctl.go, *)
(* the mouse translator of the mouse handler and the window operations     *)
(* that drive them.                                                        *)
(*                                                                         *)
(* Indices are the source's: byte slices are 0-based there, so At(s, k)    *)
(* reads the k-th byte of a slice held as a TLA+ sequence.                 *)
(***************************************************************************)
EXTENDS Integers, Sequences, FiniteSets, TLC

VARIABLES
    \* ---- codec (lz77.go) ----
    pix,        \* the []byte handed to compress / getLargestPrefix
    cpc,        \* position of the codec caller: "start", "compressed", "queried"
    val,        \* the tokens compress appended to val, in order
    qidx,       \* idx argument of the last getLargestPrefix call
    qres,       \* its result <<candidateIdx, candidateSize>>
    \* ---- mouse translator (mouseEventHandler) ----
    prevmask,   \* the handler's local prevmask
    mouseLog,   \* one entry per read of /dev/mouse: the record, prevmask before
                \* and after it, and the events sent on notifier for it
    \* ---- protocol client (DrawCtrler) ----
    iounitSize, \* DrawCtrler.iounitSize
    nextId,     \* DrawCtrler.nextId (a uint32; it stays far below 2^32 here)
    drawMu,     \* DrawCtrler.drawMu: "free" or the thread holding it
    data,       \* the messages written to /dev/draw/n/data, oldest first; in
                \* the specifications of single calls, those of the last call
    \* ---- a caller making one call after the other ----
    call,       \* the call in progress or just finished: function, arguments,
                \* position and locals
    ret,        \* what the last finished call gave back to its caller
    issued,     \* the ids AllocBuffer returned so far, in order
    freedIds,   \* the ids handed to FreeID so far
    \* ---- the screen and the threads that use it ----
    windows,    \* screenImpl.windows: the imageId of each window, in order
    windowFrame, \* screenImpl.windowFrame
    pc,         \* where each thread is
    loc,        \* each thread's locals: calls made (n), loop index (i), the
                \* arguments and values it has read
    deque       \* the events sent to the active window's Deque, oldest first

varsCodec == <<pix, cpc, val, qidx, qres>>

varsMouse == <<prevmask, mouseLog>>

varsCtl == <<iounitSize, nextId, drawMu, data>>

varsCaller == <<call, ret, issued, freedIds>>

varsScreen == <<windows, windowFrame, pc, loc, deque>>

vars == <<varsCodec, varsMouse, varsCtl, varsCaller, varsScreen>>

(***************************************************************************)
(* The parts of the driver a specification leaves alone keep these values. *)
(***************************************************************************)
CodecIdle ==
    /\ pix = <<>>
    /\ cpc = "idle"
    /\ val = <<>>
    /\ qidx = 0
    /\ qres = <<0, 0>>

MouseIdle ==
    /\ prevmask = 0
    /\ mouseLog = <<>>

NoCall == [fn |-> "none", pc |-> "done"]

NoReturn == [fn |-> "none", id |-> 0, failed |-> FALSE]

\* NewDrawCtrler: dc := &DrawCtrler{nextId: 2}, the mutex unlocked; 65535 is
\* the iounit of the in-memory draw device.
CtlIdle ==
    /\ iounitSize = 65535
    /\ nextId = 2
    /\ drawMu = "free"
    /\ data = <<>>

CallerIdle ==
    /\ call = NoCall
    /\ ret = NoReturn
    /\ issued = <<>>
    /\ freedIds = {}

ScreenIdle ==
    /\ windows = <<>>
    /\ windowFrame = [Min |-> [X |-> 0, Y |-> 0], Max |-> [X |-> 0, Y |-> 0]]
    /\ pc = <<>>
    /\ loc = <<>>
    /\ deque = <<>>

(***************************************************************************)
(* Fixed-width integer helpers.                                            *)
(***************************************************************************)
Byte == 0..255

At(s, k) == s[k + 1]

\* pix[a:b]
Slice(s, a, b) == SubSeq(s, a + 1, b)

uint8(n) == n % 256

uint16(n) == n % 65536

RECURSIVE BitOr(_, _)
BitOr(a, b) ==
    IF a = 0 THEN b
    ELSE IF b = 0 THEN a
    ELSE (IF (a % 2 = 1) \/ (b % 2 = 1) THEN 1 ELSE 0) + 2 * BitOr(a \div 2, b \div 2)

RECURSIVE BitAnd(_, _)
BitAnd(a, b) ==
    IF a = 0 \/ b = 0 THEN 0
    ELSE (IF (a % 2 = 1) /\ (b % 2 = 1) THEN 1 ELSE 0) + 2 * BitAnd(a \div 2, b \div 2)

(***************************************************************************)
(* lz77.go: getLargestPrefix.                                              *)
(* The state of its loops is the pair of locals (candidateIdx,             *)
(* candidateSize), with brk set once the loop at hand is left ("break", or *)
(* its condition failing) and ret once line 46 returns.  A loop is run by  *)
(* applying its body to a range of values of the loop variable, in the     *)
(* loop's order, the range being split in halves.                          *)
(***************************************************************************)
NoCandidate == [idx |-> 0, size |-> 0, brk |-> FALSE, ret |-> FALSE]

\* Body of "for j, val := range pix[idx : idx+34]" (lines 34-47).
innerBody(p, idx, i, j, cand) ==
    IF i + j >= Len(p) THEN [cand EXCEPT !.brk = TRUE]
    ELSE IF At(p, idx + j) = At(p, i + j)
         THEN LET c == IF j > cand.size
                       THEN [cand EXCEPT !.idx = uint16(i), !.size = uint8(j)]
                       ELSE cand
              IN  IF c.size = 34 THEN [c EXCEPT !.ret = TRUE, !.brk = TRUE] ELSE c
         ELSE [cand EXCEPT !.brk = TRUE]

\* The inner loop for j = lo, lo+1, ..., hi.
RECURSIVE prefixInner(_, _, _, _, _, _)
prefixInner(p, idx, i, lo, hi, cand) ==
    IF lo > hi \/ cand.brk THEN cand
    ELSE IF lo = hi THEN innerBody(p, idx, i, lo, cand)
    ELSE LET mid == (lo + hi) \div 2
         IN  prefixInner(p, idx, i, mid + 1, hi, prefixInner(p, idx, i, lo, mid, cand))

\* Condition and body of "for i := idx-34; i >= 0 && idx-i < 128; i--"
\* (lines 28-51).
outerBody(p, idx, i, cand) ==
    IF ~(i >= 0 /\ idx - i < 128) THEN [cand EXCEPT !.brk = TRUE]
    ELSE IF At(p, i) = At(p, idx)
         THEN IF idx + 34 >= Len(p)
              THEN [cand EXCEPT !.brk = TRUE]
              ELSE LET c == prefixInner(p, idx, i, 0, 33, cand)
                   IN  [c EXCEPT !.brk = c.ret]
         ELSE cand

\* The outer loop for i = hi, hi-1, ..., lo.
RECURSIVE prefixOuter(_, _, _, _, _)
prefixOuter(p, idx, hi, lo, cand) ==
    IF hi < lo \/ cand.brk THEN cand
    ELSE IF hi = lo THEN outerBody(p, idx, hi, cand)
    ELSE LET mid == (hi + lo + 1) \div 2
         IN  prefixOuter(p, idx, mid - 1, lo, prefixOuter(p, idx, hi, mid, cand))

getLargestPrefix(p, idx) ==
    LET c == prefixOuter(p, idx, idx - 34, idx - 34 - 128, NoCandidate)
    IN  IF c.ret THEN <<c.idx, c.size>>
        ELSE IF c.size > 2 THEN <<c.idx, c.size>>
        ELSE <<0, 0>>

(***************************************************************************)
(* lz77.go: compress.  Each loop iteration appends one token to val; a     *)
(* token keeps, beside its bytes, the loop's locals when it was appended   *)
(* (at: i, n: size or the literal run, from: idx).                         *)
(***************************************************************************)
\* Faulty variant of backrefToken: the offset is written without the bias of one.
backrefTokenNoBias(i, idx, size) ==
    LET encodedOffset == uint16(i - idx)
        e0 == BitOr(uint8((size - 3) * 4), uint8(BitAnd(encodedOffset, 768) \div 256))
        e1 == uint8(BitAnd(encodedOffset, 255))
    IN  [kind |-> "ref", at |-> i, n |-> size, from |-> idx, bytes |-> <<e0, e1>>]

backrefToken(i, idx, size) ==
    LET encodedOffset == uint16(uint16(i - idx) + 65535)
        e0 == BitOr(uint8((size - 3) * 4), uint8(BitAnd(encodedOffset, 768) \div 256))
        e1 == uint8(BitAnd(encodedOffset, 255))
    IN  [kind |-> "ref", at |-> i, n |-> size, from |-> idx, bytes |-> <<e0, e1>>]

\* Faulty variant of literalToken: the run is not cut at 128 bytes.
literalTokenUncut(p, i) ==
    LET left == Len(p) - i
    IN  [kind |-> "lit", at |-> i, n |-> left, from |-> i,
         bytes |-> <<BitOr(128, uint8(left - 1))>> \o Slice(p, i, i + left)]

literalToken(p, i) ==
    LET left == Len(p) - i
    IN  IF left >= 128
        THEN [kind |-> "lit", at |-> i, n |-> 128, from |-> i,
              bytes |-> <<255>> \o Slice(p, i, i + 128)]
        ELSE [kind |-> "lit", at |-> i, n |-> left, from |-> i,
              bytes |-> <<BitOr(128, uint8(left - 1))>> \o Slice(p, i, i + left)]

RECURSIVE compressFrom(_, _)
compressFrom(p, i) ==
    IF ~(i < Len(p)) THEN <<>>
    ELSE LET r == getLargestPrefix(p, i)
             t == IF r[2] > 2 THEN backrefToken(i, r[1], r[2]) ELSE literalToken(p, i)
         IN  <<t>> \o compressFrom(p, i + t.n)

compressTokens(p) == compressFrom(p, 0)

RECURSIVE tokenBytes(_)
tokenBytes(ts) == IF ts = <<>> THEN <<>> ELSE Head(ts).bytes \o tokenBytes(Tail(ts))

\* The []byte compress returns.
compress(p) == tokenBytes(compressTokens(p))

(***************************************************************************)
(* Inputs of the codec: byte rows of a few shapes.  Gen(len, period, g) is *)
(* the row whose k-th byte is k mod period, except byte g, which is 201:   *)
(* period 1 is a fill colour, a period between 34 and 127 repeats earlier  *)
(* bytes inside the lookback window, period 256 has no repeated byte, and  *)
(* g cuts a repetition short.                                              *)
(***************************************************************************)
MaxLen == 165

Lens == {0, 1, 2, 40, 69, 70, 100, 129, MaxLen}

Periods == {1, 3, 36, 40, 256}

Glitches == {-1, 43, 44, 76}

Gen(len, period, g) == [k \in 1..len |-> IF k - 1 = g THEN 201 ELSE (k - 1) % period]

\* Ten bytes 0xFF followed by thirty pairwise distinct bytes.
Example40 == [k \in 1..40 |-> IF k <= 10 THEN 255 ELSE k]

Inputs == {Gen(l, p, g) : l \in Lens, p \in Periods, g \in Glitches} \cup {Example40}

(***************************************************************************)
(* The codec's callers: compress on a row (compressedReplaceSubimage), and *)
(* getLargestPrefix at one index of it.                                    *)
(***************************************************************************)
InitCodec ==
    /\ pix \in Inputs
    /\ cpc = "start"
    /\ val = <<>>
    /\ qidx = 0
    /\ qres = <<0, 0>>
    /\ MouseIdle /\ CtlIdle /\ CallerIdle /\ ScreenIdle

Compress ==
    /\ cpc = "start"
    /\ val' = compressTokens(pix)
    /\ cpc' = "compressed"
    /\ UNCHANGED <<pix, qidx, qres>>
    /\ UNCHANGED <<varsMouse, varsCtl, varsCaller, varsScreen>>

GetLargestPrefix ==
    /\ cpc = "start"
    /\ \E idx \in 0..(Len(pix) - 1) :
          /\ qidx' = idx
          /\ qres' = getLargestPrefix(pix, idx)
    /\ cpc' = "queried"
    /\ UNCHANGED <<pix, val>>
    /\ UNCHANGED <<varsMouse, varsCtl, varsCaller, varsScreen>>

NextCodec == Compress \/ GetLargestPrefix

SpecCodec == InitCodec /\ [][NextCodec]_vars

(***************************************************************************)
(* The decoder of the token grammar quoted in lz77.go (lines 63-69 and     *)
(* 83-86): the reference the codec's output is read against.  A stream     *)
(* that is cut short, or that points before the start of the decoded       *)
(* bytes, decodes to Malformed.                                            *)
(***************************************************************************)
Malformed == <<-1>>

\* n bytes copied from dist bytes back, one after the other, so that a copy
\* may run into the bytes it has just written.
copyBack(o, dist, n) == o \o [k \in 1..n |-> o[Len(o) - dist + 1 + ((k - 1) % dist)]]

RECURSIVE decodeFrom(_, _, _)
decodeFrom(b, k, o) ==
    IF k >= Len(b) THEN o
    ELSE LET c == At(b, k)
         IN  IF c >= 128
             THEN LET n == (c - 128) + 1
                  IN  IF k + 1 + n > Len(b) THEN Malformed
                      ELSE decodeFrom(b, k + 1 + n, o \o Slice(b, k + 1, k + 1 + n))
             ELSE IF k + 1 >= Len(b) THEN Malformed
                  ELSE LET n == (c \div 4) + 3
                           dist == (c % 4) * 256 + At(b, k + 1) + 1
                       IN  IF dist > Len(o) THEN Malformed
                           ELSE decodeFrom(b, k + 2, copyBack(o, dist, n))

decode(b) == decodeFrom(b, 0, <<>>)

\* C4: decoding what compress returned, by the token grammar, gives back the
\* input row, byte for byte and with the same length.
C4_RoundTrip == cpc = "compressed" => decode(tokenBytes(val)) = pix

\* A row of more than 128 bytes whose output holds both kinds of token.
C4_Witness ==
    /\ cpc = "compressed"
    /\ Len(pix) > 128
    /\ \E a, b \in 1..Len(val) : val[a].kind = "ref" /\ val[b].kind = "lit"
    /\ decode(tokenBytes(val)) = pix

\* What the grammar reads in the two kinds of token.
RefLengthField(t) == At(t.bytes, 0) \div 4

RefDistanceField(t) == (At(t.bytes, 0) % 4) * 256 + At(t.bytes, 1)

LitRunField(t) == At(t.bytes, 0) - 128

\* Token number k starts where the tokens before it stopped.
RECURSIVE consumedBefore(_, _)
consumedBefore(ts, k) == IF k <= 1 THEN 0 ELSE consumedBefore(ts, k - 1) + ts[k - 1].n

WellFormedRef(t, consumed) ==
    /\ Len(t.bytes) = 2
    /\ At(t.bytes, 0) < 128
    /\ t.n \in 3..34
    /\ RefLengthField(t) \in 0..31
    /\ RefLengthField(t) = t.n - 3
    /\ (t.at - t.from) \in 1..1024
    /\ RefDistanceField(t) \in 0..1023
    /\ RefDistanceField(t) = (t.at - t.from) - 1
    /\ (t.at - t.from) <= consumed
    /\ Slice(pix, t.at, t.at + t.n) = Slice(pix, t.from, t.from + t.n)

WellFormedLit(t) ==
    /\ At(t.bytes, 0) >= 128
    /\ t.n \in 1..128
    /\ LitRunField(t) \in 0..127
    /\ LitRunField(t) = t.n - 1
    /\ Len(t.bytes) = 1 + t.n
    /\ Tail(t.bytes) = Slice(pix, t.at, t.at + t.n)

\* C6: every token compress emits is well-formed: a back-reference has the high
\* bit clear, length field = match length - 3 in [0,31], distance field =
\* distance - 1 in [0,1023], and points no further back than the bytes already
\* consumed; a literal has the high bit set, run field = run length - 1 in
\* [0,127] and is followed by exactly that many raw bytes, at most 128.
C6_TokensWellFormed ==
    cpc = "compressed" =>
        \A k \in 1..Len(val) :
            /\ val[k].at = consumedBefore(val, k)
            /\ IF val[k].kind = "ref"
               THEN WellFormedRef(val[k], consumedBefore(val, k))
               ELSE WellFormedLit(val[k])

\* A full 128-byte literal and a back-reference in one output.
C6_Witness ==
    /\ cpc = "compressed"
    /\ \E a, b \in 1..Len(val) :
          /\ val[a].kind = "lit" /\ val[a].n = 128
          /\ val[b].kind = "ref" /\ val[b].n > 3

\* A position i < idx, at most 128 bytes back, where a run of at least n bytes
\* equal to the bytes starting at idx begins.
MatchAt(p, idx, i, n) ==
    /\ i >= 0 /\ i < idx /\ idx - i <= 128
    /\ idx + n <= Len(p)
    /\ Slice(p, i, i + n) = Slice(p, idx, idx + n)

\* C7: getLargestPrefix returns (0,0) if and only if no earlier position within
\* the 128-byte lookback window starts a run of at least 3 bytes equal to the
\* bytes at idx; otherwise a length in [3,34] and an index where that many
\* bytes really match.
C7_SentinelIffNoMatch ==
    cpc = "queried" =>
        /\ (qres = <<0, 0>>) <=> ~(\E i \in 0..(qidx - 1) : MatchAt(pix, qidx, i, 3))
        /\ qres # <<0, 0>> =>
              /\ qres[2] \in 3..34
              /\ MatchAt(pix, qidx, qres[1], qres[2])

\* C25: compress of the 40-byte row of ten 0xFF and thirty distinct bytes
\* holds a back-reference token that covers part of the run of 0xFF, and
\* in every output a byte is left in a literal token only where no run of
\* at least 3 bytes in the window before it matches.
C25_BackrefWhereMatch ==
    cpc = "compressed" =>
        /\ pix = Example40 =>
              \E k \in 1..Len(val) : val[k].kind = "ref" /\ val[k].at < 10
        /\ \A k \in 1..Len(val) :
              val[k].kind = "lit" =>
                  \A q \in val[k].at .. (val[k].at + val[k].n - 1) :
                      ~(\E i \in 0..(q - 1) : MatchAt(pix, q, i, 3))

\* Where compress does emit a back-reference, that many bytes match at the
\* distance it names.
C25_BackrefsAreMatches ==
    cpc = "compressed" =>
        \A k \in 1..Len(val) :
            val[k].kind = "ref" =>
                MatchAt(pix, val[k].at, val[k].from, val[k].n)

(***************************************************************************)
(* The mouse translator: mouseEventHandler.                                *)
(*                                                                         *)
(* A record of /dev/mouse is text: a tag, then fields of 11 characters,    *)
(* each followed by a space.  Records are held as sequences of one-        *)
(* character strings, and the handler's conversions (strings.TrimSpace,    *)
(* strconv.Atoi, strconv.ParseFloat) work on those characters.  The fields *)
(* fed to them here are made of digits, a sign, spaces and the letter x,   *)
(* on which ParseFloat and Atoi accept the same strings, the decimal       *)
(* integers.                                                               *)
(***************************************************************************)
MouseButtonLeft == 1

MouseButtonMiddle == 2

MouseButtonRight == 4

MouseScrollUp == 8

MouseScrollDown == 16

Digits == <<"0", "1", "2", "3", "4", "5", "6", "7", "8", "9">>

IsDigit(c) == \E d \in 1..10 : Digits[d] = c

DigitVal(c) == (CHOOSE d \in 1..10 : Digits[d] = c) - 1

RECURSIVE TrimLeft(_)
TrimLeft(s) == IF s # <<>> /\ Head(s) = " " THEN TrimLeft(Tail(s)) ELSE s

RECURSIVE TrimRight(_)
TrimRight(s) ==
    IF s # <<>> /\ s[Len(s)] = " " THEN TrimRight(SubSeq(s, 1, Len(s) - 1)) ELSE s

TrimSpace(s) == TrimRight(TrimLeft(s))

RECURSIVE digitsValue(_, _)
digitsValue(s, acc) ==
    IF s = <<>> THEN acc ELSE digitsValue(Tail(s), acc * 10 + DigitVal(Head(s)))

\* strconv.Atoi: an optional sign and at least one digit, nothing else.
Atoi(s) ==
    LET signed == s # <<>> /\ Head(s) \in {"+", "-"}
        body == IF signed THEN Tail(s) ELSE s
    IN  IF body = <<>> \/ \E k \in 1..Len(body) : ~IsDigit(body[k])
        THEN [err |-> TRUE, v |-> 0]
        ELSE [err |-> FALSE,
              v |-> IF signed /\ Head(s) = "-"
                    THEN 0 - digitsValue(body, 0)
                    ELSE digitsValue(body, 0)]

\* strconv.ParseFloat(s, 32) on the fields above.
ParseFloat(s) == Atoi(s)

\* What the device prints: a number as decimal digits ...
RECURSIVE Itoa(_)
Itoa(n) ==
    IF n < 0 THEN <<"-">> \o Itoa(0 - n)
    ELSE IF n < 10 THEN <<Digits[n + 1]>>
    ELSE Itoa(n \div 10) \o <<Digits[(n % 10) + 1]>>

\* ... right-aligned in 11 characters.
RECURSIVE Pad11(_)
Pad11(s) == IF Len(s) >= 11 THEN s ELSE Pad11(<<" ">> \o s)

\* The bytes of one record: tag, x, sep, y, " ", buttons, " ", msec, " ".
MouseRecord(rec) ==
    <<rec.tag>> \o Pad11(rec.x) \o <<rec.sep>> \o Pad11(rec.y) \o <<" ">>
        \o Pad11(rec.buttons) \o <<" ">> \o Pad11(Itoa(0)) \o <<" ">>

\* The ten "if" statements of lines 148-249, in order; sentEvt is true exactly
\* when one of them sent an event.
buttonChecks(buttons, prev, x, y) ==
    LET ev(b, d) == [X |-> x, Y |-> y, Button |-> b, Direction |-> d]
        press(m) == BitAnd(buttons, m) # 0 /\ BitAnd(prev, m) = 0
        release(m) == BitAnd(buttons, m) = 0 /\ BitAnd(prev, m) # 0
        when(c, e) == IF c THEN <<e>> ELSE <<>>
    IN  when(press(MouseButtonLeft), ev("ButtonLeft", "DirPress"))
        \o when(release(MouseButtonLeft), ev("ButtonLeft", "DirRelease"))
        \o when(press(MouseButtonMiddle), ev("ButtonMiddle", "DirPress"))
        \o when(release(MouseButtonMiddle), ev("ButtonMiddle", "DirRelease"))
        \o when(press(MouseButtonRight), ev("ButtonRight", "DirPress"))
        \o when(release(MouseButtonRight), ev("ButtonRight", "DirRelease"))
        \o when(press(MouseScrollUp), ev("ButtonWheelUp", "DirPress"))
        \o when(release(MouseScrollUp), ev("ButtonWheelUp", "DirRelease"))
        \o when(press(MouseScrollDown), ev("ButtonWheelDown", "DirPress"))
        \o when(release(MouseScrollDown), ev("ButtonWheelDown", "DirRelease"))

\* Faulty variant of mouseEvents: the movement event is sent whatever sentEvt says.
mouseEventsAlwaysMove(buttons, prev, x, y) ==
    buttonChecks(buttons, prev, x, y)
        \o <<[X |-> x, Y |-> y, Button |-> "ButtonNone", Direction |-> "DirNone"]>>

\* The events sent on notifier for one parsed 'm' record.
mouseEvents(buttons, prev, x, y) ==
    LET sent == buttonChecks(buttons, prev, x, y)
        sentEvt == sent # <<>>
    IN  IF sentEvt = FALSE
        THEN <<[X |-> x, Y |-> y, Button |-> "ButtonNone", Direction |-> "DirNone"]>>
        ELSE sent

\* Faulty variant of handleRecord: prevmask = buttons is left out.
handleRecordKeepsMask(msg, prev) ==
    LET skip == [sent |-> <<>>, prevmask |-> prev]
        x == ParseFloat(TrimSpace(Slice(msg, 1, 12)))
        y == ParseFloat(TrimSpace(Slice(msg, 13, 24)))
        b == Atoi(TrimSpace(Slice(msg, 25, 36)))
    IN  IF At(msg, 0) = "m" /\ ~x.err /\ ~y.err /\ ~b.err
        THEN [sent |-> mouseEvents(b.v, prev, x.v, y.v), prevmask |-> prev]
        ELSE skip

\* One iteration of the handler's loop on the bytes msg of a 'm' record or of
\* a record with an unhandled tag: the events sent and the new prevmask.
\* A field that does not parse ends the iteration ("continue") before any
\* event is sent; a character other than a space at index 12 is only logged.
handleRecord(msg, prev) ==
    LET skip == [sent |-> <<>>, prevmask |-> prev]
        x == ParseFloat(TrimSpace(Slice(msg, 1, 12)))
        y == ParseFloat(TrimSpace(Slice(msg, 13, 24)))
        b == Atoi(TrimSpace(Slice(msg, 25, 36)))
    IN  IF At(msg, 0) = "m"
        THEN IF x.err THEN skip
             ELSE IF y.err THEN skip
             ELSE IF b.err THEN skip
             ELSE [sent |-> mouseEvents(b.v, prev, x.v, y.v), prevmask |-> b.v]
        ELSE skip

(***************************************************************************)
(* The records read in this model.                                         *)
(***************************************************************************)
MaxPolls == 3

Masks == {0, 1, 3, 4, 8, 16, 32}

\* A record as the device prints it from the position (xv, yv) and the button
\* mask bv; the numbers are kept beside the text.
Printed(xv, yv, bv) ==
    [tag |-> "m", sep |-> " ", x |-> Itoa(xv), y |-> Itoa(yv), buttons |-> Itoa(bv),
     xv |-> xv, yv |-> yv, bv |-> bv]

WellFormedRecords ==
    {Printed(10, 20, m) : m \in Masks} \cup {Printed(300, 7, m) : m \in {0, 1}}

MalformedRecords ==
    {[Printed(10, 20, 1) EXCEPT !.tag = "z"],
     [Printed(10, 20, 1) EXCEPT !.x = <<"x", "7">>],
     [Printed(10, 20, 1) EXCEPT !.y = <<"-">>],
     [Printed(10, 20, 1) EXCEPT !.buttons = <<"1", "x">>],
     [Printed(10, 20, 1) EXCEPT !.sep = "x"]}

NoRecord == [Printed(0, 0, 0) EXCEPT !.tag = ""]

MouseRecords == WellFormedRecords \cup MalformedRecords

InitMouse ==
    /\ prevmask = 0
    /\ mouseLog = <<>>
    /\ CodecIdle /\ CtlIdle /\ CallerIdle /\ ScreenIdle

\* mouseEvent.Read failed: "continue".
MouseReadError ==
    /\ Len(mouseLog) < MaxPolls
    /\ mouseLog' = Append(mouseLog,
          [rec |-> NoRecord, prev |-> prevmask, sent |-> <<>>, next |-> prevmask])
    /\ UNCHANGED prevmask
    /\ UNCHANGED <<varsCodec, varsCtl, varsCaller, varsScreen>>

\* One record read and handled.
MouseRead ==
    /\ Len(mouseLog) < MaxPolls
    /\ \E rec \in MouseRecords :
          LET msg == MouseRecord(rec)
              h == handleRecord(msg, prevmask)
          IN  /\ prevmask' = h.prevmask
              /\ mouseLog' = Append(mouseLog,
                    [rec |-> rec, prev |-> prevmask, sent |-> h.sent,
                     next |-> h.prevmask])
    /\ UNCHANGED <<varsCodec, varsCtl, varsCaller, varsScreen>>

NextMouse == MouseRead \/ MouseReadError

SpecMouse == InitMouse /\ [][NextMouse]_vars

(***************************************************************************)
(* C5.                                                                     *)
(***************************************************************************)
TrackedButtons ==
    <<[bit |-> 1, name |-> "ButtonLeft"], [bit |-> 2, name |-> "ButtonMiddle"],
      [bit |-> 4, name |-> "ButtonRight"], [bit |-> 8, name |-> "ButtonWheelUp"],
      [bit |-> 16, name |-> "ButtonWheelDown"]>>

HasBit(m, bit) == (m \div bit) % 2 = 1

\* The transitions of the tracked buttons from mask prev to mask new, in the
\* order left, middle, right, wheel-up, wheel-down, from button k on.
RECURSIVE transitionsFrom(_, _, _, _, _)
transitionsFrom(k, prev, new, x, y) ==
    IF k > Len(TrackedButtons) THEN <<>>
    ELSE LET b == TrackedButtons[k]
             here == IF HasBit(new, b.bit) /\ ~HasBit(prev, b.bit)
                     THEN <<[X |-> x, Y |-> y, Button |-> b.name, Direction |-> "DirPress"]>>
                     ELSE IF ~HasBit(new, b.bit) /\ HasBit(prev, b.bit)
                     THEN <<[X |-> x, Y |-> y, Button |-> b.name, Direction |-> "DirRelease"]>>
                     ELSE <<>>
         IN  here \o transitionsFrom(k + 1, prev, new, x, y)

ExpectedEvents(prev, new, x, y) ==
    LET t == transitionsFrom(1, prev, new, x, y)
    IN  IF t = <<>>
        THEN <<[X |-> x, Y |-> y, Button |-> "ButtonNone", Direction |-> "DirNone"]>>
        ELSE t

ButtonEvents(sent) == <<[s \in 1..Len(sent) |-> <<sent[s].Button, sent[s].Direction>>]>>[1]

\* C5: for every well-formed movement/button record the events sent are exactly
\* the presses and releases of the five tracked bits that differ between the
\* previous and the new mask, in the order left, middle, right, wheel-up,
\* wheel-down, all with the record's X/Y, or one "moved, no button" event if
\* none differs; the previous mask then becomes the new mask.  In particular
\* the masks 0, 1, 3, 0 give LeftPress; MiddlePress; LeftRelease, MiddleRelease.
C5_MouseEvents ==
    /\ \A k \in 1..Len(mouseLog) :
          mouseLog[k].rec \in WellFormedRecords =>
              /\ mouseLog[k].sent =
                    ExpectedEvents(mouseLog[k].prev, mouseLog[k].rec.bv,
                                   mouseLog[k].rec.xv, mouseLog[k].rec.yv)
              /\ mouseLog[k].next = mouseLog[k].rec.bv
    /\ (/\ Len(mouseLog) >= 3
        /\ \A k \in 1..3 : mouseLog[k].rec \in WellFormedRecords
        /\ mouseLog[1].prev = 0
        /\ <<mouseLog[1].rec.bv, mouseLog[2].rec.bv, mouseLog[3].rec.bv>>
              = <<1, 3, 0>>)
       => /\ ButtonEvents(mouseLog[1].sent) = <<<<"ButtonLeft", "DirPress">>>>
          /\ ButtonEvents(mouseLog[2].sent) = <<<<"ButtonMiddle", "DirPress">>>>
          /\ ButtonEvents(mouseLog[3].sent) =
                <<<<"ButtonLeft", "DirRelease">>, <<"ButtonMiddle", "DirRelease">>>>

\* The masks 0, 1, 3, 0 were read, the last record releasing two buttons at once.
C5_Witness ==
    /\ Len(mouseLog) = 3
    /\ \A k \in 1..3 : mouseLog[k].rec \in WellFormedRecords
    /\ mouseLog[1].prev = 0
    /\ <<mouseLog[1].rec.bv, mouseLog[2].rec.bv, mouseLog[3].rec.bv>>
          = <<1, 3, 0>>
    /\ Len(mouseLog[3].sent) = 2
    /\ prevmask = 0

\* C19: a record with an unknown tag, with another character than a space
\* after the X field, or with an X, Y or button field that does not parse
\* sends no event and leaves prevmask as it was (the loop then reads on).
C19_MalformedSkipped ==
    \A k \in 1..Len(mouseLog) :
        mouseLog[k].rec \in MalformedRecords =>
            /\ mouseLog[k].sent = <<>>
            /\ mouseLog[k].next = mouseLog[k].prev

(***************************************************************************)
(* The protocol client: drawctl.go.                                        *)
(*                                                                         *)
(* A message is held by its fields, named as in draw(3), instead of the    *)
(* little-endian bytes PutUint32 lays them out in.  What is kept of a      *)
(* write is the message, the thread and function that wrote it, and        *)
(* whether d.data.Write returned an error.                                 *)
(***************************************************************************)
Rect(x0, y0, x1, y1) == [Min |-> [X |-> x0, Y |-> y0], Max |-> [X |-> x1, Y |-> y1]]

Pt(x, y) == [X |-> x, Y |-> y]

\* image.Rectangle.Size
RectSize(r) == [X |-> r.Max.X - r.Min.X, Y |-> r.Max.Y - r.Min.Y]

ZP == Pt(0, 0)

\* sendMessage: the write of cmd followed by val; its error is that of Write.
sendMessage(cmd, v, by, fn, werr) ==
    [cmd |-> cmd, val |-> v, by |-> by, fn |-> fn, err |-> werr]

\* Colours as color.Color.RGBA() returns them: 16 bits a channel.
Transparent == [R |-> 0, G |-> 0, B |-> 0, A |-> 0]

Black == [R |-> 0, G |-> 0, B |-> 0, A |-> 65535]

White == [R |-> 65535, G |-> 65535, B |-> 65535, A |-> 65535]

\* Faulty variant of allocId: the increment of nextId is lost.
allocIdSame(n) == n

\* AllocBuffer, lines 211-212: d.nextId += 1; newId := d.nextId
allocId(n) == n + 1

\* AllocBuffer, lines 209-252: the fields of the 'b' message.
allocBufferMsg(newId, a) ==
    [id |-> newId, screenid |-> 0, refresh |-> a.refresh, chan |-> <<8, 24, 40, 72>>,
     repl |-> IF a.repl = TRUE THEN 1 ELSE 0, r |-> a.r, clipr |-> a.clipr,
     color |-> <<uint8(a.color.A \div 256), uint8(a.color.B \div 256),
                 uint8(a.color.G \div 256), uint8(a.color.R \div 256)>>]

\* FreeID, lines 262-263.
freeIDMsg(id) == [id |-> id]

\* setOp, lines 282-290.
setOpMsg(op) == [op |-> IF op = "Src" THEN 10 ELSE 11]

\* Draw, lines 304-315.
drawMsg(dstid, srcid, maskid, r, srcp, maskp) ==
    [dstid |-> dstid, srcid |-> srcid, maskid |-> maskid, r |-> r,
     srcp |-> srcp, maskp |-> maskp]

(***************************************************************************)
(* One caller, one call after the other: AllocBuffer, FreeID and Draw, on a*)
(* data channel whose writes may fail.                                     *)
(***************************************************************************)
MaxAllocs == 4

\* The arguments of newUploadImpl (a window or texture image) and of Fill (a
\* replicated 1x1 colour).
AllocArgs ==
    {[refresh |-> 0, repl |-> FALSE, r |-> Rect(0, 0, 8, 8), clipr |-> Rect(0, 0, 8, 8),
      color |-> White],
     [refresh |-> 0, repl |-> TRUE, r |-> Rect(0, 0, 1, 1), clipr |-> Rect(0, 0, 8, 8),
      color |-> Black]}

InitAlloc ==
    /\ iounitSize = 65535
    /\ nextId = 2
    /\ drawMu = "free"
    /\ data = <<>>
    /\ CallerIdle
    /\ CodecIdle /\ MouseIdle /\ ScreenIdle

\* AllocBuffer: the id is taken, the 'b' message written, the id returned; the
\* error of sendMessage is dropped (line 254).
AllocBufferCall ==
    /\ Len(issued) < MaxAllocs
    /\ \E a \in AllocArgs, werr \in BOOLEAN :
          LET newId == allocId(nextId)
          IN  /\ nextId' = newId
              /\ data' = <<sendMessage("b", allocBufferMsg(newId, a), "caller",
                                       "AllocBuffer", werr)>>
              /\ ret' = [fn |-> "AllocBuffer", id |-> newId, failed |-> FALSE]
              /\ issued' = Append(issued, newId)
    /\ UNCHANGED <<iounitSize, drawMu, call, freedIds>>
    /\ UNCHANGED <<varsCodec, varsMouse, varsScreen>>

\* FreeID of an id the caller holds or held; the error is dropped (line 264).
FreeIDCall ==
    /\ \E k \in 1..Len(issued), werr \in BOOLEAN :
          /\ data' = <<sendMessage("f", freeIDMsg(issued[k]), "caller", "FreeID", werr)>>
          /\ freedIds' = freedIds \cup {issued[k]}
    /\ ret' = [fn |-> "FreeID", id |-> 0, failed |-> FALSE]
    /\ UNCHANGED <<iounitSize, nextId, drawMu, call, issued>>
    /\ UNCHANGED <<varsCodec, varsMouse, varsScreen>>

\* Draw with nobody else about: the mutex is taken, 'O' and 'd' are written
\* and the deferred Unlock runs; both errors are dropped (lines 291, 316).
DrawCall ==
    /\ drawMu = "free"
    /\ \E k \in 1..Len(issued), op \in {"Src", "Over"}, werr \in BOOLEAN \X BOOLEAN :
          data' = <<sendMessage("O", setOpMsg(op), "caller", "Draw", werr[1]),
                    sendMessage("d", drawMsg(0, issued[k], issued[k], Rect(0, 0, 8, 8),
                                             ZP, ZP), "caller", "Draw", werr[2])>>
    /\ ret' = [fn |-> "Draw", id |-> 0, failed |-> FALSE]
    /\ UNCHANGED <<iounitSize, nextId, drawMu, call, issued, freedIds>>
    /\ UNCHANGED <<varsCodec, varsMouse, varsScreen>>

NextAlloc == AllocBufferCall \/ FreeIDCall \/ DrawCall

SpecAlloc == InitAlloc /\ [][NextAlloc]_vars

\* C2: in any sequence of AllocBuffer and FreeID calls every id returned is
\* strictly greater than every id returned before it, freed or not, and the
\* allocator depends on the number of AllocBuffer calls alone: FreeID never
\* changes it.
C2_IdsIncrease ==
    /\ \A i, j \in 1..Len(issued) : i < j => issued[i] < issued[j]
    /\ nextId = 2 + Len(issued)

\* An AllocBuffer call that follows the release of an earlier id.
C2_Witness ==
    /\ ret.fn = "AllocBuffer"
    /\ Len(issued) >= 3
    /\ freedIds # {}
    /\ \A id \in freedIds : id < ret.id

\* C9: a failed write of a composition, upload or allocation command is
\* reported to the caller of the operation, and AllocBuffer hands back no id
\* when its 'b' message could not be written.
C9_WriteFailureReported ==
    (\E k \in 1..Len(data) : data[k].err /\ data[k].fn = ret.fn) =>
        /\ ret.failed
        /\ ret.fn = "AllocBuffer" => ret.id = 0

\* C20: the first id AllocBuffer returns in a session is 2, each later one is
\* the one before plus one, and 0 and 1 are never returned.
C20_FirstIdIsTwo ==
    /\ issued # <<>> => issued[1] = 2
    /\ \A k \in 2..Len(issued) : issued[k] = issued[k - 1] + 1
    /\ \A k \in 1..Len(issued) : issued[k] \notin {0, 1}

(***************************************************************************)
(* The running driver: threads that compose onto the window (the callback  *)
(* thread "cb" and a goroutine "go" it started) call Window.Draw with a    *)
(* pure translation and Window.Publish, while the mouse thread handles     *)
(* resize records.  Every step is one access to shared state: a mutex      *)
(* operation, a write to the data channel, a read or write of a window's   *)
(* imageId.  The device accepts every write here.                          *)
(*                                                                         *)
(* Init is the session after newScreenImpl, NewWindow for each window and  *)
(* one NewTexture: ids 3.. belong to the windows, the next to the texture. *)
(***************************************************************************)
NumWindows == 1

\* Calls begun by all threads together.
MaxCalls == 2

Composers == {"cb", "go"}

Threads == Composers \cup {"mouse"}

\* screenImpl.screenId, the slot AllocScreen returned.
ScreenSlot == 0

Frames == {Rect(4, 4, 20, 12)}

TextureId == 2 + NumWindows + 1

TextureRect == Rect(0, 0, 4, 4)

\* The op each composer draws with.
DrawOpOf == [t \in Composers |-> IF t = "cb" THEN "Over" ELSE "Src"]

Begun == loc["cb"].n + loc["go"].n + loc["mouse"].n

NoLocals ==
    [n |-> 0, i |-> 0, dst |-> 0, src |-> 0, mask |-> 0, op |-> "Over",
     r |-> Rect(0, 0, 0, 0)]

Init ==
    /\ iounitSize = 65535
    /\ nextId = TextureId
    /\ drawMu = "free"
    /\ data = <<>>
    /\ windows = [k \in 1..NumWindows |-> 2 + k]
    /\ windowFrame = Rect(4, 4, 12, 12)
    /\ pc = [t \in Threads |-> "idle"]
    /\ loc = [t \in Threads |-> NoLocals]
    /\ deque = <<>>
    /\ CodecIdle /\ MouseIdle /\ CallerIdle

Write(t, cmd, v, fn) == data' = Append(data, sendMessage(cmd, v, t, fn, FALSE))

Goto(t, label) == pc' = [pc EXCEPT ![t] = label]

\* ---- windowImpl.Draw, pure translation (uploadimpl.go:156-165), into
\* ---- DrawCtrler.Draw (drawctl.go:298-317)
\* The call: w.imageId and srcT.imageId are read as arguments.
DrawEnter(t) ==
    /\ pc[t] = "idle" /\ Begun < MaxCalls
    /\ loc' = [loc EXCEPT ![t] = [@ EXCEPT !.n = @ + 1, !.dst = windows[NumWindows],
                                           !.src = TextureId, !.mask = TextureId,
                                           !.op = DrawOpOf[t]]]
    /\ Goto(t, "Draw.Lock")
    /\ UNCHANGED <<varsCtl, windows, windowFrame>>
    /\ UNCHANGED <<varsCodec, varsMouse, varsCaller>>
    /\ UNCHANGED deque

\* Faulty variant of DrawLock: Draw goes on without the mutex.
DrawLockSkipped(t) ==
    /\ pc[t] = "Draw.Lock"
    /\ Goto(t, "Draw.setOp")
    /\ UNCHANGED <<varsCtl, windows, windowFrame, loc>>
    /\ UNCHANGED <<varsCodec, varsMouse, varsCaller>>
    /\ UNCHANGED deque

\* d.drawMu.Lock()
DrawLock(t) ==
    /\ pc[t] = "Draw.Lock"
    /\ drawMu = "free"
    /\ drawMu' = t
    /\ Goto(t, "Draw.setOp")
    /\ UNCHANGED <<iounitSize, nextId, data, windows, windowFrame, loc>>
    /\ UNCHANGED <<varsCodec, varsMouse, varsCaller>>
    /\ UNCHANGED deque

\* d.setOp(op)
DrawSetOp(t) ==
    /\ pc[t] = "Draw.setOp"
    /\ Write(t, "O", setOpMsg(loc[t].op), "Draw")
    /\ Goto(t, "Draw.d")
    /\ UNCHANGED <<iounitSize, nextId, drawMu, windows, windowFrame, loc>>
    /\ UNCHANGED <<varsCodec, varsMouse, varsCaller>>
    /\ UNCHANGED deque

\* d.sendMessage('d', msg)
DrawSend(t) ==
    /\ pc[t] = "Draw.d"
    /\ Write(t, "d", drawMsg(loc[t].dst, loc[t].src, loc[t].mask,
                             Rect(2, 3, 2 + RectSize(TextureRect).X,
                                  3 + RectSize(TextureRect).Y),
                             TextureRect.Min, ZP), "Draw")
    /\ Goto(t, "Draw.Unlock")
    /\ UNCHANGED <<iounitSize, nextId, drawMu, windows, windowFrame, loc>>
    /\ UNCHANGED <<varsCodec, varsMouse, varsCaller>>
    /\ UNCHANGED deque

\* defer d.drawMu.Unlock()
DrawUnlock(t) ==
    /\ pc[t] = "Draw.Unlock"
    /\ drawMu' = "free"
    /\ Goto(t, "idle")
    /\ UNCHANGED <<iounitSize, nextId, data, windows, windowFrame, loc>>
    /\ UNCHANGED <<varsCodec, varsMouse, varsCaller>>
    /\ UNCHANGED deque

\* ---- windowImpl.Publish into redrawWindow (part_001:116-138)
\* The call: redrawWindow(w.s, w.s.windowFrame)
RedrawEnter(t) ==
    /\ pc[t] = "idle" /\ Begun < MaxCalls
    /\ loc' = [loc EXCEPT ![t] = [@ EXCEPT !.n = @ + 1, !.dst = 0, !.op = "Src",
                                           !.r = windowFrame]]
    /\ Goto(t, "redraw.Lock")
    /\ UNCHANGED <<varsCtl, windows, windowFrame>>
    /\ UNCHANGED <<varsCodec, varsMouse, varsCaller>>
    /\ UNCHANGED deque

\* s.ctl.drawMu.Lock(), then the range over s.windows begins.
RedrawLock(t) ==
    /\ pc[t] = "redraw.Lock"
    /\ drawMu = "free"
    /\ drawMu' = t
    /\ loc' = [loc EXCEPT ![t] = [@ EXCEPT !.i = 1]]
    /\ Goto(t, "redraw.src")
    /\ UNCHANGED <<iounitSize, nextId, data, windows, windowFrame>>
    /\ UNCHANGED <<varsCodec, varsMouse, varsCaller>>
    /\ UNCHANGED deque

\* Next window, or the loop is over; args[4:] = win.imageId
RedrawSrc(t) ==
    /\ pc[t] = "redraw.src"
    /\ IF loc[t].i > Len(windows)
       THEN /\ Goto(t, "redraw.v")
            /\ UNCHANGED loc
       ELSE /\ loc' = [loc EXCEPT ![t] = [@ EXCEPT !.src = windows[loc[t].i]]]
            /\ Goto(t, "redraw.mask")
    /\ UNCHANGED <<varsCtl, windows, windowFrame>>
    /\ UNCHANGED <<varsCodec, varsMouse, varsCaller>>
    /\ UNCHANGED deque

\* args[8:] = win.imageId
RedrawMask(t) ==
    /\ pc[t] = "redraw.mask"
    /\ loc' = [loc EXCEPT ![t] = [@ EXCEPT !.mask = windows[loc[t].i]]]
    /\ Goto(t, "redraw.setOp")
    /\ UNCHANGED <<varsCtl, windows, windowFrame>>
    /\ UNCHANGED <<varsCodec, varsMouse, varsCaller>>
    /\ UNCHANGED deque

\* s.ctl.setOp(draw.Src)
RedrawSetOp(t) ==
    /\ pc[t] = "redraw.setOp"
    /\ Write(t, "O", setOpMsg("Src"), "redrawWindow")
    /\ Goto(t, "redraw.d")
    /\ UNCHANGED <<iounitSize, nextId, drawMu, windows, windowFrame, loc>>
    /\ UNCHANGED <<varsCodec, varsMouse, varsCaller>>
    /\ UNCHANGED deque

\* s.ctl.sendMessage('d', args)
RedrawSend(t) ==
    /\ pc[t] = "redraw.d"
    /\ Write(t, "d", drawMsg(0, loc[t].src, loc[t].mask, loc[t].r, ZP, ZP),
             "redrawWindow")
    /\ loc' = [loc EXCEPT ![t] = [@ EXCEPT !.i = @ + 1]]
    /\ Goto(t, "redraw.src")
    /\ UNCHANGED <<iounitSize, nextId, drawMu, windows, windowFrame>>
    /\ UNCHANGED <<varsCodec, varsMouse, varsCaller>>
    /\ UNCHANGED deque

\* s.ctl.sendMessage('v', nil)
RedrawFlush(t) ==
    /\ pc[t] = "redraw.v"
    /\ Write(t, "v", <<>>, "redrawWindow")
    /\ Goto(t, "redraw.Unlock")
    /\ UNCHANGED <<iounitSize, nextId, drawMu, windows, windowFrame, loc>>
    /\ UNCHANGED <<varsCodec, varsMouse, varsCaller>>
    /\ UNCHANGED deque

\* defer s.ctl.drawMu.Unlock()
RedrawUnlock(t) ==
    /\ pc[t] = "redraw.Unlock"
    /\ drawMu' = "free"
    /\ Goto(t, "idle")
    /\ UNCHANGED <<iounitSize, nextId, data, windows, windowFrame, loc>>
    /\ UNCHANGED <<varsCodec, varsMouse, varsCaller>>
    /\ UNCHANGED deque

\* ---- mouseEventHandler, case 'r' (wctl.go:94-105), into repositionWindow
\* ---- (part_001:86-112) and ReallocScreen (drawctl.go:184-197)
\* readWctl gave the new frame; s.windowFrame = windowSize
ResizeEnter ==
    /\ pc["mouse"] = "idle" /\ Begun < MaxCalls
    /\ \E f \in Frames : windowFrame' = f
    /\ loc' = [loc EXCEPT !["mouse"] = [@ EXCEPT !.n = @ + 1]]
    /\ Goto("mouse", "Realloc.Lock")
    /\ UNCHANGED <<varsCtl, windows>>
    /\ UNCHANGED <<varsCodec, varsMouse, varsCaller>>
    /\ UNCHANGED deque

\* readWctl failed: the error is logged and the handler reads the next record
\* ("continue").
ResizeWctlError ==
    /\ pc["mouse"] = "idle" /\ Begun < MaxCalls
    /\ loc' = [loc EXCEPT !["mouse"] = [@ EXCEPT !.n = @ + 1]]
    /\ UNCHANGED <<varsCtl, windows, windowFrame, pc, deque>>
    /\ UNCHANGED <<varsCodec, varsMouse, varsCaller>>

\* d.drawMu.Lock()
ReallocLock ==
    /\ pc["mouse"] = "Realloc.Lock"
    /\ drawMu = "free"
    /\ drawMu' = "mouse"
    /\ Goto("mouse", "Realloc.F")
    /\ UNCHANGED <<iounitSize, nextId, data, windows, windowFrame, loc>>
    /\ UNCHANGED <<varsCodec, varsMouse, varsCaller>>
    /\ UNCHANGED deque

\* d.sendMessage('F', msg)
ReallocFree ==
    /\ pc["mouse"] = "Realloc.F"
    /\ Write("mouse", "F", [id |-> ScreenSlot], "ReallocScreen")
    /\ Goto("mouse", "Realloc.A")
    /\ UNCHANGED <<iounitSize, nextId, drawMu, windows, windowFrame, loc>>
    /\ UNCHANGED <<varsCodec, varsMouse, varsCaller>>
    /\ UNCHANGED deque

\* return d.sendMessage('A', msg), with the deferred Unlock
ReallocAlloc ==
    /\ pc["mouse"] = "Realloc.A"
    /\ Write("mouse", "A", [id |-> ScreenSlot], "ReallocScreen")
    /\ drawMu' = "free"
    /\ Goto("mouse", "reposition.n")
    /\ UNCHANGED <<iounitSize, nextId, windows, windowFrame, loc>>
    /\ UNCHANGED <<varsCodec, varsMouse, varsCaller>>
    /\ UNCHANGED deque

\* s.ctl.sendMessage('n', reAttachWindow()), then the range over s.windows
RepositionAttach ==
    /\ pc["mouse"] = "reposition.n"
    /\ Write("mouse", "n", [name |-> "winname"], "repositionWindow")
    /\ loc' = [loc EXCEPT !["mouse"] = [@ EXCEPT !.i = 1]]
    /\ Goto("mouse", "reposition.f")
    /\ UNCHANGED <<iounitSize, nextId, drawMu, windows, windowFrame>>
    /\ UNCHANGED <<varsCodec, varsMouse, varsCaller>>
    /\ UNCHANGED deque

\* Next window, or repositionWindow returns; s.ctl.FreeID(uint32(win.imageId))
RepositionFree ==
    /\ pc["mouse"] = "reposition.f"
    /\ IF loc["mouse"].i > Len(windows)
       THEN /\ Goto("mouse", "notify.size")
            /\ UNCHANGED data
       ELSE /\ Write("mouse", "f", freeIDMsg(windows[loc["mouse"].i]), "FreeID")
            /\ Goto("mouse", "reposition.b")
    /\ UNCHANGED <<iounitSize, nextId, drawMu, windows, windowFrame, loc>>
    /\ UNCHANGED <<varsCodec, varsMouse, varsCaller>>
    /\ UNCHANGED deque

\* s.windows[i].imageId = s.ctl.AllocBuffer(0, false, sz, sz, color.RGBA{0, 0, 0, 0})
RepositionAlloc ==
    /\ pc["mouse"] = "reposition.b"
    /\ LET newId == allocId(nextId)
           sz == Rect(0, 0, RectSize(windowFrame).X, RectSize(windowFrame).Y)
       IN  /\ nextId' = newId
           /\ Write("mouse", "b",
                    allocBufferMsg(newId, [refresh |-> 0, repl |-> FALSE, r |-> sz,
                                           clipr |-> sz, color |-> Transparent]),
                    "AllocBuffer")
           /\ windows' = [windows EXCEPT ![loc["mouse"].i] = newId]
    /\ loc' = [loc EXCEPT !["mouse"] = [@ EXCEPT !.i = @ + 1]]
    /\ Goto("mouse", "reposition.f")
    /\ UNCHANGED <<iounitSize, drawMu, windowFrame>>
    /\ UNCHANGED <<varsCodec, varsMouse, varsCaller>>
    /\ UNCHANGED deque

\* Faulty variant of sizeEvent: the event carries the frame's corner.
sizeEventOfMax(frame, rec) ==
    [ev |-> "size", WidthPx |-> frame.Max.X, HeightPx |-> frame.Max.Y, rec |-> rec]

\* The events of the handler's 'r' case; rec is the number of the record they
\* stem from, kept beside the event.
sizeEvent(frame, rec) ==
    [ev |-> "size", WidthPx |-> RectSize(frame).X, HeightPx |-> RectSize(frame).Y,
     rec |-> rec]

paintEvent(rec) == [ev |-> "paint", rec |-> rec]

\* s.w.Deque.Send(size.Event{WidthPx: sz.X, HeightPx: sz.Y}); a window is
\* active (s.w != nil).
ResizeSize ==
    /\ pc["mouse"] = "notify.size"
    /\ deque' = Append(deque, sizeEvent(windowFrame, loc["mouse"].n))
    /\ Goto("mouse", "notify.paint")
    /\ UNCHANGED <<varsCtl, windows, windowFrame, loc>>
    /\ UNCHANGED <<varsCodec, varsMouse, varsCaller>>

\* s.w.Deque.Send(paint.Event{}), and the handler reads the next record.
ResizePaint ==
    /\ pc["mouse"] = "notify.paint"
    /\ deque' = Append(deque, paintEvent(loc["mouse"].n))
    /\ Goto("mouse", "idle")
    /\ UNCHANGED <<varsCtl, windows, windowFrame, loc>>
    /\ UNCHANGED <<varsCodec, varsMouse, varsCaller>>

Next ==
    \/ \E t \in Composers :
          \/ DrawEnter(t) \/ DrawLock(t) \/ DrawSetOp(t) \/ DrawSend(t) \/ DrawUnlock(t)
          \/ RedrawEnter(t) \/ RedrawLock(t) \/ RedrawSrc(t) \/ RedrawMask(t)
          \/ RedrawSetOp(t) \/ RedrawSend(t) \/ RedrawFlush(t) \/ RedrawUnlock(t)
    \/ ResizeEnter \/ ResizeWctlError \/ ReallocLock \/ ReallocFree \/ ReallocAlloc
    \/ RepositionAttach \/ RepositionFree \/ RepositionAlloc
    \/ ResizeSize \/ ResizePaint

Spec == Init /\ [][Next]_vars

\* The messages the mouse thread wrote: those of its re-layouts.
Relayouts == SelectSeq(data, LAMBDA m : m.by = "mouse")

\* Messages in one re-layout: 'F', 'A', 'n', and 'f' and 'b' per window.
RelayoutLen == 3 + 2 * Len(windows)

\* The resize events in the window's queue.
Notified == SelectSeq(deque, LAMBDA v : v.ev \in {"size", "paint"})

\* C17: a resize record is handled in this order: the geometry is read again
\* and stored as the current frame, the windows are laid out again (screen
\* realloc, reattach, every window freed and allocated at the stored frame's
\* size), then a size event with the stored frame's width and height is
\* queued, then a paint event; size comes before paint, and both come after
\* the last message of the re-layout.  A record whose geometry cannot be read
\* does none of this.
C17_ResizeOrder ==
    LET m == loc["mouse"]
        at == pc["mouse"]
        sz == Rect(0, 0, RectSize(windowFrame).X, RectSize(windowFrame).Y)
        laidOut == Len(Relayouts) \div RelayoutLen
        \* re-layouts finished before the one in progress
        prior == IF at = "reposition.f" /\ Len(Relayouts) % RelayoutLen = 0
                 THEN laidOut - 1 ELSE laidOut
    IN  /\ at # "idle" => windowFrame \in Frames
        /\ \A k \in 1..Len(Relayouts) :
              LET j == (k - 1) % RelayoutLen
              IN  Relayouts[k].cmd =
                      IF j = 0 THEN "F" ELSE IF j = 1 THEN "A" ELSE IF j = 2 THEN "n"
                      ELSE IF j % 2 = 1 THEN "f" ELSE "b"
        /\ at \in {"Realloc.Lock", "Realloc.F", "Realloc.A", "reposition.n",
                   "reposition.f", "reposition.b"} =>
              /\ Len(Notified) = 2 * prior
              /\ \A k \in 1..Len(Relayouts) :
                    (k > prior * RelayoutLen /\ Relayouts[k].cmd = "b")
                        => Relayouts[k].val.r = sz
        /\ at \in {"notify.size", "notify.paint", "idle"} =>
              Len(Relayouts) = laidOut * RelayoutLen
        /\ at = "notify.size" => Len(Notified) = 2 * (laidOut - 1)
        /\ at = "notify.paint" =>
              /\ Len(Notified) = 2 * laidOut - 1
              /\ Notified[Len(Notified)] =
                    [ev |-> "size", rec |-> m.n,
                     WidthPx |-> windowFrame.Max.X - windowFrame.Min.X,
                     HeightPx |-> windowFrame.Max.Y - windowFrame.Min.Y]
        /\ at = "idle" => Len(Notified) = 2 * laidOut
        /\ \A k \in 1..Len(Notified) :
              /\ Notified[k].ev = IF k % 2 = 1 THEN "size" ELSE "paint"
              /\ k % 2 = 0 => Notified[k].rec = Notified[k - 1].rec
              /\ Notified[k].ev = "size" =>
                    \E f \in Frames :
                        /\ Notified[k].WidthPx = f.Max.X - f.Min.X
                        /\ Notified[k].HeightPx = f.Max.Y - f.Min.Y

\* Two records handled, the first with unreadable geometry: one re-layout,
\* then its size and paint events.
C17_Witness ==
    /\ pc["mouse"] = "idle"
    /\ loc["mouse"].n = 2
    /\ Len(Relayouts) = RelayoutLen
    /\ Len(Notified) = 2
    /\ Notified[1].ev = "size" /\ Notified[1].rec = 2
    /\ Notified[2].ev = "paint" /\ Notified[2].rec = 2

\* The messages the session mutex is held for.
Guarded(m) ==
    \/ m.fn \in {"Draw", "redrawWindow"} /\ m.cmd \in {"O", "d"}
    \/ m.fn = "ReallocScreen" /\ m.cmd \in {"F", "A"}

\* C1: between the 'O' and the 'd' of one Draw call no 'O' or 'd' of another
\* Draw call or of a batch redraw and no 'F' or 'A' of ReallocScreen is written:
\* such a message of another thread that follows the 'O' follows the 'd' too.
C1_SetOpDrawAtomic ==
    \A i \in 1..Len(data) :
        (data[i].cmd = "O" /\ data[i].fn = "Draw") =>
            \A k \in (i + 1)..Len(data) :
                (Guarded(data[k]) /\ data[k].by # data[i].by) =>
                    \E j \in (i + 1)..(k - 1) :
                        /\ data[j].by = data[i].by
                        /\ data[j].cmd = "d" /\ data[j].fn = "Draw"

\* A Draw call has written its 'O' and not yet its 'd', while the other
\* composer waits for the mutex to draw or the mouse thread waits for it to
\* reallocate the screen.
C1_Witness ==
    /\ pc["cb"] = "Draw.d"
    /\ \/ pc["go"] \in {"Draw.Lock", "redraw.Lock"}
       \/ pc["mouse"] = "Realloc.Lock"
    /\ data # <<>> /\ data[Len(data)].cmd = "O" /\ data[Len(data)].by = "cb"

\* The messages written under the mutex and the flush, in the order written.
LockedLog == SelectSeq(data, LAMBDA m : Guarded(m) \/ m.cmd = "v")

IsRedraw(m, cmd) == m.fn = "redrawWindow" /\ m.cmd = cmd

\* The messages of one redraw, from its first 'O' to its flush, follow one
\* another in LockedLog: 'O', 'd' for each window, then 'v', all by one thread.
RedrawBatchAt(k) ==
    LET L == LockedLog
        first == k - 2 * Len(windows)
    IN  /\ first >= 1
        /\ \A j \in first..(k - 1) :
              /\ L[j].by = L[k].by
              /\ IsRedraw(L[j], IF (j - first) % 2 = 0 THEN "O" ELSE "d")

\* Image id was freed by an 'f' written before message m.
FreedBefore(id, m) ==
    \E i, j \in 1..Len(data) :
        i < j /\ data[j] = m /\ data[i].cmd = "f" /\ data[i].val.id = id

\* C16: a redraw writes for each window 'O' with op 10 and next to it 'd'
\* onto image 0 with the window's id, the one it holds then, as source and
\* as mask, then the flush;
\* nothing written under the mutex by another thread lies between the first
\* 'O' and the flush.
C16_PublishBatch ==
    LET L == LockedLog
    IN  \A k \in 1..Len(L) :
           /\ IsRedraw(L[k], "O") => L[k].val.op = 10
           /\ IsRedraw(L[k], "d") =>
                 /\ k > 1 /\ IsRedraw(L[k - 1], "O") /\ L[k - 1].by = L[k].by
                 /\ L[k].val.dstid = 0
                 /\ L[k].val.srcid = L[k].val.maskid
                 /\ ~FreedBefore(L[k].val.srcid, L[k])
           /\ IsRedraw(L[k], "v") => RedrawBatchAt(k)

(***************************************************************************)
(* Uploads: ReplaceSubimage and compressedReplaceSubimage, one loop        *)
(* iteration a step.  The pixel buffer of a call holds exactly the         *)
(* rectangle, 4 bytes a pixel, and is given by its pattern; the device     *)
(* accepts every write here.                                               *)
(***************************************************************************)
IounitSizes == {100, 1000, 65535}

PixelKinds == {"fill", "ramp"}

\* Byte k of a buffer: one RGBA colour throughout, or bytes that never repeat
\* within the compressor's window.
pixelAt(kind, k) ==
    IF kind = "fill" THEN At(<<10, 20, 30, 255>>, k % 4) ELSE (k * 3) % 256

\* Messages written by one call whose loop does not advance before the
\* model stops following it.
MaxMsgs == 4

\* The rectangles a session with this transfer unit uploads.
UploadRects(iounit) ==
    {Rect(0, 0, 50, 50), Rect(0, 0, 17, 4), Rect(0, 0, 8, 8), Rect(2, 3, 10, 11),
     Rect(0, 0, 17, 1), Rect(0, 0, 5, 4), Rect(0, 5, 5, 9), Rect(0, 0, 30, 2)}
      \cup (IF iounit = 65535 THEN {Rect(0, 0, 128, 128), Rect(0, 10, 128, 138)} ELSE {})

NoUpload ==
    [fn |-> "ReplaceSubimage", pc |-> "done", dstid |-> 0, r |-> Rect(0, 0, 0, 0),
     kind |-> "fill", i |-> 0, blockYStart |-> 0, compressed |-> <<>>, lineSize |-> 0]

Min2(a, b) == IF a < b THEN a ELSE b

\* y id[4] r[4*4] buf: the buffer is given by where in pixels the copy began
\* and how many bytes copy() moved.
yMsg(dstid, r, miny, maxy, from, n) ==
    [id |-> dstid, r |-> Rect(r.Min.X, miny, r.Max.X, maxy), from |-> from, n |-> n]

\* Y id[4] r[4*4] buf
compressedMsg(dstid, r, blockYStart, i, compressed) ==
    [id |-> dstid,
     r |-> Rect(r.Min.X, r.Min.Y + blockYStart, r.Max.X, r.Min.Y + i),
     buf |-> compressed]

InitUpload ==
    /\ iounitSize \in IounitSizes
    /\ nextId = 3
    /\ drawMu = "free"
    /\ data = <<>>
    /\ call = NoUpload
    /\ ret = NoReturn /\ issued = <<>> /\ freedIds = {}
    /\ CodecIdle /\ MouseIdle /\ ScreenIdle

\* ReplaceSubimage(dstid, r, pixels) up to its first loop: the choice of the
\* form, and the single 'y' when the upload fits.  prior is what the data
\* channel holds when the call begins.
ReplaceSubimageEnter(dstid, r, kind, prior) ==
    LET rSize == RectSize(r)
        len == rSize.X * rSize.Y * 4
        c == [NoUpload EXCEPT !.dstid = dstid, !.r = r, !.kind = kind]
    IN  IF iounitSize < 65535 /\ len > 256
        THEN /\ call' = [c EXCEPT !.fn = "compressedReplaceSubimage",
                                  !.pc = IF rSize.Y > 0 THEN "loop" ELSE "done"]
             /\ data' = prior
        ELSE IF (rSize.X * rSize.Y * 4 + 21) < iounitSize
        THEN /\ call' = c
             /\ data' = Append(prior,
                               sendMessage("y", yMsg(dstid, r, r.Min.Y, r.Max.Y, 0, len),
                                           "caller", "ReplaceSubimage", FALSE))
        ELSE /\ call' = [c EXCEPT !.pc = IF r.Min.Y < r.Max.Y THEN "loop" ELSE "done",
                                  !.i = r.Min.Y,
                                  !.lineSize = (iounitSize \div 4) \div rSize.X]
             /\ data' = prior

ReplaceSubimageCall ==
    /\ call.pc = "done"
    /\ \E r \in UploadRects(iounitSize), kind \in PixelKinds :
          ReplaceSubimageEnter(3, r, kind, <<>>)
    /\ UNCHANGED <<iounitSize, nextId, drawMu, ret, issued, freedIds>>
    /\ UNCHANGED <<varsCodec, varsMouse, varsScreen>>

\* One iteration of the loop of compressedReplaceSubimage, and the loop's
\* test after it.
CompressedRow ==
    /\ call.fn = "compressedReplaceSubimage" /\ call.pc = "loop"
    /\ LET rSize == RectSize(call.r)
           i == call.i
           rowStart == i * 4 * rSize.X
           linePixels == [k \in 1..(rSize.X * 4) |-> pixelAt(call.kind, rowStart + k - 1)]
           compressedLine == compress(linePixels)
           after == IF i + 1 < rSize.Y THEN "loop" ELSE "done"
       IN  IF Len(call.compressed) + Len(compressedLine) >= iounitSize \/ i = rSize.Y - 1
           THEN /\ data' = Append(data,
                        sendMessage("Y", compressedMsg(call.dstid, call.r, call.blockYStart,
                                                       i, call.compressed),
                                    "caller", "compressedReplaceSubimage", FALSE))
                /\ call' = [call EXCEPT !.blockYStart = i, !.compressed = compressedLine,
                                        !.i = i + 1, !.pc = after]
           ELSE /\ call' = [call EXCEPT !.compressed = call.compressed \o compressedLine,
                                        !.i = i + 1, !.pc = after]
                /\ UNCHANGED data
    /\ UNCHANGED <<iounitSize, nextId, drawMu, ret, issued, freedIds>>
    /\ UNCHANGED <<varsCodec, varsMouse, varsScreen>>

\* One iteration of the loop of ReplaceSubimage, and the loop's test after
\* it.  pixels[i*rSize.X*4:] panics when the index is past the buffer.
SplitRows ==
    /\ call.fn = "ReplaceSubimage" /\ call.pc = "loop"
    /\ call.lineSize > 0 \/ Len(data) < MaxMsgs
    /\ LET rSize == RectSize(call.r)
           len == rSize.X * rSize.Y * 4
           i == call.i
           endline == Min2(i + call.lineSize, call.r.Max.Y)
           from == i * rSize.X * 4
       IN  IF from > len
           THEN /\ call' = [call EXCEPT !.pc = "panic"]
                /\ UNCHANGED data
           ELSE /\ data' = Append(data,
                        sendMessage("y", yMsg(call.dstid, call.r, i, endline, from,
                                              Min2(rSize.X * (endline - i) * 4, len - from)),
                                    "caller", "ReplaceSubimage", FALSE))
                /\ call' = [call EXCEPT !.i = i + call.lineSize,
                                        !.pc = IF i + call.lineSize < call.r.Max.Y
                                               THEN "loop" ELSE "done"]
    /\ UNCHANGED <<iounitSize, nextId, drawMu, ret, issued, freedIds>>
    /\ UNCHANGED <<varsCodec, varsMouse, varsScreen>>

NextUpload == ReplaceSubimageCall \/ CompressedRow \/ SplitRows

SpecUpload == InitUpload /\ [][NextUpload]_vars

\* The rows message m covers.
RowsOf(m) == m.val.r.Min.Y .. (m.val.r.Max.Y - 1)

\* C3: an upload that does not fit in one message of the transfer unit is
\* sent as more than one message, each as wide as the rectangle, and every
\* row of the rectangle is in exactly one message.
C3_SplitPartitions ==
    (call.pc = "done" /\ call.r # NoUpload.r
        /\ RectSize(call.r).X * RectSize(call.r).Y * 4 + 21 >= iounitSize) =>
        /\ Len(data) > 1
        /\ \A k \in 1..Len(data) :
              /\ data[k].val.r.Min.X = call.r.Min.X
              /\ data[k].val.r.Max.X = call.r.Max.X
              /\ RowsOf(data[k]) \subseteq call.r.Min.Y .. (call.r.Max.Y - 1)
        /\ \A y \in call.r.Min.Y .. (call.r.Max.Y - 1) :
              Cardinality({k \in 1..Len(data) : y \in RowsOf(data[k])}) = 1

\* The call of ReplaceSubimage is over: it returned or it panicked.
UploadOver == call.pc \in {"done", "panic"} /\ call.r # NoUpload.r

\* len(pixels) of the call
PayloadLen == RectSize(call.r).X * RectSize(call.r).Y * 4

\* C23: ReplaceSubimage sends 'Y' messages exactly when the transfer unit is
\* below 65535 and the payload is longer than 256 bytes; otherwise it sends
\* 'y' messages, and one 'y' for the whole rectangle unless the payload is
\* longer than the transfer unit.
C23_PathBySize ==
    UploadOver =>
        IF iounitSize < 65535 /\ PayloadLen > 256
        THEN data # <<>> /\ \A k \in 1..Len(data) : data[k].cmd = "Y"
        ELSE /\ data # <<>> /\ \A k \in 1..Len(data) : data[k].cmd = "y"
             /\ PayloadLen <= iounitSize =>
                   Len(data) = 1 /\ data[1].val.r = call.r

\* The choice of the form alone: 'Y' for a small transfer unit and more than
\* 256 bytes, 'y' otherwise, one 'y' when payload and header are below the
\* transfer unit.
C23_FormChosen ==
    UploadOver =>
        IF iounitSize < 65535 /\ PayloadLen > 256
        THEN data # <<>> /\ \A k \in 1..Len(data) : data[k].cmd = "Y"
        ELSE /\ \A k \in 1..Len(data) : data[k].cmd = "y"
             /\ PayloadLen + 21 < iounitSize =>
                   Len(data) = 1 /\ data[1].val.r = call.r

\* Bytes of message m on the data channel: the tag, the 20 bytes of id and
\* rectangle, and the buffer.
MessageLen(m) ==
    IF m.cmd = "Y" THEN 21 + Len(m.val.buf)
    ELSE 21 + RectSize(m.val.r).X * RectSize(m.val.r).Y * 4

\* Rows of the call's rectangle that fit one message beside tag and header.
RowsThatFit == (iounitSize - 21) \div (RectSize(call.r).X * 4)

\* C24: when a row of the rectangle and the 21 bytes of tag and header fit
\* the transfer unit, no message of the upload is longer than the transfer
\* unit, and in the uncompressed split every message but the last carries as
\* many whole rows as fit.
C24_MessagesFit ==
    (call.r # NoUpload.r /\ RectSize(call.r).X * 4 + 21 <= iounitSize) =>
        \A k \in 1..Len(data) :
            /\ MessageLen(data[k]) <= iounitSize
            /\ (data[k].cmd = "y" /\ call.pc = "done" /\ k < Len(data)) =>
                  RectSize(data[k].val.r).Y = RowsThatFit

\* Without the 21 bytes of tag and header: the pixel bytes of a 'y' message
\* are at most the transfer unit, and every 'y' message of a split but the
\* last carries iounitSize / 4 / width rows.
C24_PixelsFit ==
    (call.r # NoUpload.r /\ RectSize(call.r).X * 4 + 21 <= iounitSize) =>
        \A k \in 1..Len(data) :
            data[k].cmd = "y" =>
                /\ MessageLen(data[k]) - 21 <= iounitSize
                /\ (call.pc = "done" /\ k < Len(data)) =>
                      RectSize(data[k].val.r).Y =
                          (iounitSize \div 4) \div RectSize(call.r).X

\* C28: in the uncompressed split a message for rows [y0, y1) carries the
\* bytes (y0 - r.Min.Y) * width * 4 up to (y1 - r.Min.Y) * width * 4 of
\* pixels, whatever r.Min.Y is, and pixels is never indexed past its end.
C28_SplitPayload ==
    (call.fn = "ReplaceSubimage" /\ call.r # NoUpload.r) =>
        /\ call.pc # "panic"
        /\ \A k \in 1..Len(data) :
              LET m == data[k].val
                  w == RectSize(call.r).X
              IN  /\ m.from = (m.r.Min.Y - call.r.Min.Y) * w * 4
                  /\ m.from + m.n = (m.r.Max.Y - call.r.Min.Y) * w * 4

\* The same for rectangles that begin at row 0.
C28_SplitPayloadAtRowZero ==
    (call.fn = "ReplaceSubimage" /\ call.r # NoUpload.r /\ call.r.Min.Y = 0) =>
        /\ call.pc # "panic"
        /\ \A k \in 1..Len(data) :
              LET m == data[k].val
                  w == RectSize(call.r).X
              IN  /\ m.from = (m.r.Min.Y - call.r.Min.Y) * w * 4
                  /\ m.from + m.n = (m.r.Max.Y - call.r.Min.Y) * w * 4

(***************************************************************************)
(* Read-back: ReadSubimage, one loop iteration a step.  What Read returns  *)
(* is the device's choice: the bytes asked for, fewer of them with a nil   *)
(* error, or an error.  The buffer is given by its length and by the reads *)
(* that were stored into it; where no read stored anything it holds the    *)
(* zeros make() put there.                                                 *)
(***************************************************************************)
ReadRects(iounit) ==
    {Rect(0, 0, 8, 8), Rect(2, 3, 10, 11), Rect(0, 0, 5, 5), Rect(0, 0, 50, 12),
     Rect(0, 0, 300, 2)}
      \cup (IF iounit = 65535 THEN {Rect(0, 0, 128, 128)} ELSE {})

NoRead ==
    [fn |-> "ReadSubimage", pc |-> "done", src |-> 0, r |-> Rect(0, 0, 0, 0),
     i |-> 0, lineSize |-> 0, pixels |-> [len |-> 0, stored |-> <<>>]]

\* r id[4] r[4*4]
readMsg(src, r, miny, maxy) == [id |-> src, r |-> Rect(r.Min.X, miny, r.Max.X, maxy)]

\* The byte counts d.data.Read may return with a nil error when the reply to
\* the request holds want bytes.
ReadCounts(want) == IF want > 0 THEN {want, want - 4} ELSE {want}

InitRead ==
    /\ iounitSize \in IounitSizes
    /\ nextId = 3
    /\ drawMu = "free"
    /\ data = <<>>
    /\ call = NoRead
    /\ ret = NoReturn /\ issued = <<>> /\ freedIds = {}
    /\ CodecIdle /\ MouseIdle /\ ScreenIdle

\* ReadSubimage(src, r) up to its loop: the buffer, and the single request
\* and its read when the rectangle is smaller than the transfer unit.  prior
\* is what the data channel holds when the call begins.
ReadSubimageEnter(src, r, prior) ==
    LET rSize == RectSize(r)
        len == rSize.X * rSize.Y * 4
        c == [NoRead EXCEPT !.src = src, !.r = r, !.pixels = [len |-> len, stored |-> <<>>]]
    IN  IF (rSize.X * rSize.Y * 4) < iounitSize
        THEN /\ data' = Append(prior, sendMessage("r", readMsg(src, r, r.Min.Y, r.Max.Y),
                                                  "caller", "ReadSubimage", FALSE))
             /\ \/ \E n \in ReadCounts(len) :
                      call' = [c EXCEPT !.pixels.stored =
                                  <<[off |-> 0, want |-> len, got |-> n]>>]
                \/ call' = [c EXCEPT !.pc = "panic"]
        ELSE /\ data' = prior
             /\ call' = [c EXCEPT !.pc = IF r.Min.Y < r.Max.Y THEN "loop" ELSE "done",
                                  !.i = r.Min.Y,
                                  !.lineSize = (iounitSize \div 4) \div rSize.X]

ReadSubimageCall ==
    /\ call.pc = "done"
    /\ \E r \in ReadRects(iounitSize) : ReadSubimageEnter(3, r, <<>>)
    /\ UNCHANGED <<iounitSize, nextId, drawMu, ret, issued, freedIds>>
    /\ UNCHANGED <<varsCodec, varsMouse, varsScreen>>

\* One iteration of the loop of ReadSubimage, and the loop's test after it.
ReadBand ==
    /\ call.pc = "loop"
    /\ call.fn = "ReadSubimage"
    /\ Len(data) < MaxMsgs
    /\ LET rSize == RectSize(call.r)
           i == call.i
           endline == Min2(i + call.lineSize, call.r.Max.Y)
           pixelsOffset == (i - call.r.Min.Y) * rSize.X * 4
           want == rSize.X * (endline - i) * 4
       IN  /\ data' = Append(data, sendMessage("r", readMsg(call.src, call.r, i, endline),
                                               "caller", "ReadSubimage", FALSE))
           /\ \/ \E n \in ReadCounts(want) :
                    call' = [call EXCEPT
                               !.pixels.stored =
                                   Append(@, [off |-> pixelsOffset, want |-> want, got |-> n]),
                               !.i = i + call.lineSize,
                               !.pc = IF i + call.lineSize < call.r.Max.Y
                                      THEN "loop" ELSE "done"]
              \/ call' = [call EXCEPT !.pc = "panic"]
    /\ UNCHANGED <<iounitSize, nextId, drawMu, ret, issued, freedIds>>
    /\ UNCHANGED <<varsCodec, varsMouse, varsScreen>>

NextRead == ReadSubimageCall \/ ReadBand

SpecRead == InitRead /\ [][NextRead]_vars

ReadCalled == call.r # NoRead.r

Width == RectSize(call.r).X

Height == RectSize(call.r).Y

\* C8: for a rectangle of at least the transfer unit's size the requests
\* written so far are full-width bands of one or more whole rows, one after
\* the other from the rectangle's first row, each reply is stored at the
\* offset of its band's first row, and the call returns when the bands have
\* reached the last row, with a buffer of width * height * 4 bytes; for a
\* smaller rectangle the call returns after one request for all of it.
C8_ReadBands ==
    ReadCalled =>
        IF Width * Height * 4 >= iounitSize
        THEN /\ \A k \in 1..Len(data) :
                   /\ data[k].val.r.Min.X = call.r.Min.X
                   /\ data[k].val.r.Max.X = call.r.Max.X
                   /\ data[k].val.r.Min.Y < data[k].val.r.Max.Y
                   /\ data[k].val.r.Max.Y <= call.r.Max.Y
                   /\ data[k].val.r.Min.Y =
                          IF k = 1 THEN call.r.Min.Y ELSE data[k - 1].val.r.Max.Y
             /\ \A k \in 1..Len(call.pixels.stored) :
                   call.pixels.stored[k].off =
                       (data[k].val.r.Min.Y - call.r.Min.Y) * Width * 4
             /\ call.pc = "done" =>
                   /\ Len(data) >= 1
                   /\ data[Len(data)].val.r.Max.Y = call.r.Max.Y
                   /\ Len(call.pixels.stored) = Len(data)
                   /\ call.pixels.len = Width * Height * 4
        ELSE call.pc = "done" =>
                /\ Len(data) = 1
                /\ data[1].val.r = call.r
                /\ call.pixels.len = Width * Height * 4

\* C10: a call that has returned its buffer has had every read deliver all
\* the bytes of the band it asked for.
C10_ShortReadFatal ==
    (ReadCalled /\ call.pc = "done") =>
        \A k \in 1..Len(call.pixels.stored) :
            call.pixels.stored[k].got = call.pixels.stored[k].want

(***************************************************************************)
(* AllocScreen (drawctl.go:164-174), one attempt a step.  Whether the      *)
(* device accepts the 'A' of a slot is the device's choice.                *)
(***************************************************************************)
\* for i := 0; i < 255; i++
ScreenSlots == 255

\* Faulty variant of nextSlot: every other slot is passed over.
nextSlotSkip(i) == i + 2

\* i++
nextSlot(i) == i + 1

NoScreenCall == [fn |-> "AllocScreen", pc |-> "ready", i |-> 0]

\* A id[4] ..., the slot in msg[0:]
allocScreenMsg(i) == [id |-> i]

InitScreenAlloc ==
    /\ CtlIdle
    /\ call = NoScreenCall
    /\ ret = NoReturn /\ issued = <<>> /\ freedIds = {}
    /\ CodecIdle /\ MouseIdle /\ ScreenIdle

\* sId, err := ctrl.AllocScreen(): msg is made, i := 0
AllocScreenCall ==
    /\ call.fn = "AllocScreen" /\ call.pc = "ready"
    /\ call' = [call EXCEPT !.pc = "loop", !.i = 0]
    /\ UNCHANGED <<varsCtl, ret, issued, freedIds>>
    /\ UNCHANGED <<varsCodec, varsMouse, varsScreen>>

\* One iteration: the 'A' of slot i, return when the write succeeded, else
\* i++ and the loop's test; return 0, NoScreen when it fails.
AllocScreenTry ==
    /\ call.fn = "AllocScreen" /\ call.pc = "loop"
    /\ \E werr \in BOOLEAN :
          /\ data' = Append(data, sendMessage("A", allocScreenMsg(call.i), "caller",
                                              "AllocScreen", werr))
          /\ IF ~werr
             THEN /\ call' = [call EXCEPT !.pc = "done"]
                  /\ ret' = [fn |-> "AllocScreen", id |-> call.i, failed |-> FALSE]
             ELSE IF nextSlot(call.i) < ScreenSlots
             THEN /\ call' = [call EXCEPT !.i = nextSlot(call.i)]
                  /\ UNCHANGED ret
             ELSE /\ call' = [call EXCEPT !.i = nextSlot(call.i), !.pc = "done"]
                  /\ ret' = [fn |-> "AllocScreen", id |-> 0, failed |-> TRUE]
    /\ UNCHANGED <<iounitSize, nextId, drawMu, issued, freedIds>>
    /\ UNCHANGED <<varsCodec, varsMouse, varsScreen>>

NextScreenAlloc == AllocScreenCall \/ AllocScreenTry

SpecScreenAlloc == InitScreenAlloc /\ [][NextScreenAlloc]_vars

\* C11: the k-th 'A' written is that of slot k-1; every attempt before the
\* last was rejected; a call that returned a slot returned the slot of its
\* last, accepted, attempt and tried nothing after it; a call that returned
\* NoScreen made 255 attempts, all rejected.
C11_AllocScreenFirstAccepted ==
    /\ \A k \in 1..Len(data) :
          /\ data[k].cmd = "A" /\ data[k].val.id = k - 1
          /\ k < Len(data) => data[k].err
    /\ call.pc = "done" =>
          IF ret.failed
          THEN /\ Len(data) = 255
               /\ \A k \in 1..Len(data) : data[k].err
          ELSE /\ Len(data) >= 1
               /\ ~data[Len(data)].err
               /\ ret.id = data[Len(data)].val.id
               /\ ret.id \in 0..254
    /\ call.pc # "done" => \A k \in 1..Len(data) : data[k].err

\* Slots 0..6 were rejected and slot 7 was accepted and returned.
C11_Witness ==
    /\ call.fn = "AllocScreen" /\ call.pc = "done"
    /\ ~ret.failed /\ ret.id = 7 /\ Len(data) = 8

(***************************************************************************)
(* windowImpl.Draw (uploadimpl.go:143-199), called by one thread, with the *)
(* calls it makes: the frame of Draw is in pc and loc, the frame of the    *)
(* ReadSubimage or ReplaceSubimage it is waiting for is in call.  The      *)
(* float64 coefficients of src2dst are held in quarters, which float64     *)
(* represents exactly.  data holds the messages of the last Draw call.     *)
(***************************************************************************)
\* Draw calls that allocate an image, in one behaviour.
MaxDraws == 2

\* Coefficients are counted in 1/Quarter.
Quarter == 4

\* int(f) of a float64 held in quarters: the fraction is dropped, towards zero.
TruncQ(v) == IF v >= 0 THEN v \div Quarter ELSE -((-v) \div Quarter)

\* src2dst, as f64.Aff3 lays it out: [0] [1] [2] / [3] [4] [5]
Matrices ==
    {<<4, 0, 10, 0, 4, 15>>,      \* translation by (2.5, 3.75)
     <<4, 0, -6, 0, 4, 0>>,       \* translation by (-1.5, 0)
     <<8, 0, 0, 0, 8, 0>>,        \* scale by 2
     <<0, -4, 16, 4, 0, 0>>,      \* quarter turn, then 4 to the right
     <<2, 0, 1, 0, 2, 1>>,        \* scale by 1/2, translation by (0.25, 0.25)
     <<4, 2, 0, 0, 4, 0>>}        \* shear

SrcRects == {Rect(0, 0, 4, 4), Rect(1, 1, 9, 5), Rect(0, 0, 300, 2)}

\* The window's image and the texture drawn from, as allocated at start-up.
DrawWindowId == 3

DrawTextureId == 4

\* src2dst[0] == 1 && src2dst[1] == 0 && src2dst[3] == 0 && src2dst[4] == 1
IsTranslation(m) ==
    At(m, 0) = Quarter /\ At(m, 1) = 0 /\ At(m, 3) = 0 /\ At(m, 4) = Quarter

\* Faulty variant of translatedRect: Max is taken from sr.Max, not sr.Size().
translatedRectByMax(m, sr) ==
    Rect(TruncQ(At(m, 2)), TruncQ(At(m, 5)),
         TruncQ(At(m, 2)) + sr.Max.X, TruncQ(At(m, 5)) + sr.Max.Y)

\* newRectangle of the translation path
translatedRect(m, sr) ==
    Rect(TruncQ(At(m, 2)), TruncQ(At(m, 5)),
         TruncQ(At(m, 2)) + RectSize(sr).X, TruncQ(At(m, 5)) + RectSize(sr).Y)

\* affineTransform: mapPoint
mapPoint(m, x, y) ==
    Pt(TruncQ(x * At(m, 0) + y * At(m, 1) + At(m, 2)),
       TruncQ(x * At(m, 3) + y * At(m, 4) + At(m, 5)))

SetMin(S) == CHOOSE v \in S : \A w \in S : v <= w

SetMax(S) == CHOOSE v \in S : \A w \in S : v >= w

\* Faulty variant of affineTransform: the mapped corners of sr.Min and sr.Max.
affineTransformOfDiagonal(m, sr) ==
    Rect(mapPoint(m, sr.Min.X, sr.Min.Y).X, mapPoint(m, sr.Min.X, sr.Min.Y).Y,
         mapPoint(m, sr.Max.X, sr.Max.Y).X, mapPoint(m, sr.Max.X, sr.Max.Y).Y)

\* affineTransform: the rectangle from the least to the greatest coordinates
\* of the four mapped corners
affineTransform(m, sr) ==
    LET corners == {mapPoint(m, sr.Min.X, sr.Min.Y), mapPoint(m, sr.Max.X, sr.Min.Y),
                    mapPoint(m, sr.Min.X, sr.Max.Y), mapPoint(m, sr.Max.X, sr.Max.Y)}
        xs == {p.X : p \in corners}
        ys == {p.Y : p \in corners}
    IN  Rect(SetMin(xs), SetMin(ys), SetMax(xs), SetMax(ys))

NoDraw ==
    [fn |-> "Draw", m |-> <<4, 0, 0, 0, 4, 0>>, sr |-> Rect(0, 0, 0, 0), op |-> "Over",
     newRectangle |-> Rect(0, 0, 0, 0), imageId |-> 0, maskID |-> 0, dst |-> 0,
     color |-> [R |-> 0, G |-> 0, B |-> 0, A |-> 0]]

\* d.Draw(...) by a thread that finds the mutex free: 'O', then 'd'.
drawMessages(dstid, srcid, maskid, r, srcp, maskp, op) ==
    <<sendMessage("O", setOpMsg(op), "caller", "Draw", FALSE),
      sendMessage("d", drawMsg(dstid, srcid, maskid, r, srcp, maskp), "caller", "Draw",
                  FALSE)>>

InitWindowDraw ==
    /\ iounitSize \in IounitSizes
    /\ nextId = DrawTextureId
    /\ drawMu = "free"
    /\ data = <<>>
    /\ call = NoRead
    /\ ret = NoReturn /\ issued = <<>> /\ freedIds = {}
    /\ windows = <<DrawWindowId>>
    /\ windowFrame = Rect(4, 4, 12, 12)
    /\ pc = [t \in {"cb"} |-> "idle"]
    /\ loc = [t \in {"cb"} |-> NoDraw]
    /\ deque = <<>>
    /\ CodecIdle /\ MouseIdle

\* Draw up to the end of the translation path, or up to the first loop of
\* ReadSubimage.
WindowDrawCall ==
    /\ pc["cb"] \in {"idle", "returned"}
    /\ \E m \in Matrices, sr \in SrcRects, op \in {"Src", "Over"} :
          /\ loc' = [loc EXCEPT !["cb"] = [NoDraw EXCEPT !.m = m, !.sr = sr, !.op = op]]
          /\ IF IsTranslation(m)
             THEN /\ data' = drawMessages(windows[1], DrawTextureId, DrawTextureId,
                                          translatedRect(m, sr), sr.Min, ZP, op)
                  /\ pc' = [pc EXCEPT !["cb"] = "returned"]
                  /\ call' = NoRead
             ELSE /\ nextId < DrawTextureId + MaxDraws
                  /\ ReadSubimageEnter(DrawTextureId, sr, <<>>)
                  /\ pc' = [pc EXCEPT !["cb"] = "Draw.read"]
    /\ UNCHANGED <<iounitSize, nextId, drawMu, ret, issued, freedIds, windows, windowFrame>>
    /\ UNCHANGED <<varsCodec, varsMouse>>
    /\ UNCHANGED deque

\* ReadSubimage has returned: steps 2 and 3, affineTransform and AllocBuffer.
WindowDrawAlloc ==
    /\ pc["cb"] = "Draw.read"
    /\ call.fn = "ReadSubimage" /\ call.pc = "done"
    /\ LET newRectangle == affineTransform(loc["cb"].m, loc["cb"].sr)
           newOriginRectangle ==
               Rect(0, 0, RectSize(newRectangle).X, RectSize(newRectangle).Y)
           newId == allocId(nextId)
       IN  /\ nextId' = newId
           /\ data' = Append(data, sendMessage("b",
                        allocBufferMsg(newId, [refresh |-> 0, repl |-> FALSE,
                                               r |-> newOriginRectangle,
                                               clipr |-> newOriginRectangle,
                                               color |-> Transparent]),
                        "caller", "AllocBuffer", FALSE))
           /\ loc' = [loc EXCEPT !["cb"] = [@ EXCEPT !.newRectangle = newRectangle,
                                                      !.imageId = newId]]
    /\ pc' = [pc EXCEPT !["cb"] = "Draw.upload"]
    /\ UNCHANGED <<iounitSize, drawMu, call, ret, issued, freedIds, windows, windowFrame>>
    /\ UNCHANGED <<varsCodec, varsMouse>>
    /\ UNCHANGED deque

\* Step 4: ReplaceSubimage of transformedImage.Pix, up to its first loop.
WindowDrawUpload ==
    /\ pc["cb"] = "Draw.upload"
    /\ LET nr == loc["cb"].newRectangle
       IN  \E kind \in PixelKinds :
              ReplaceSubimageEnter(loc["cb"].imageId,
                                   Rect(0, 0, RectSize(nr).X, RectSize(nr).Y), kind, data)
    /\ pc' = [pc EXCEPT !["cb"] = "Draw.uploaded"]
    /\ UNCHANGED <<iounitSize, nextId, drawMu, ret, issued, freedIds>>
    /\ UNCHANGED <<windows, windowFrame, loc>>
    /\ UNCHANGED <<varsCodec, varsMouse>>
    /\ UNCHANGED deque

\* ReplaceSubimage has returned: step 5, Draw from the new image.
WindowDrawComposite ==
    /\ pc["cb"] = "Draw.uploaded"
    /\ call.fn \in {"ReplaceSubimage", "compressedReplaceSubimage"} /\ call.pc = "done"
    /\ data' = data \o drawMessages(windows[1], loc["cb"].imageId, loc["cb"].imageId,
                                    loc["cb"].newRectangle, ZP, ZP, loc["cb"].op)
    /\ pc' = [pc EXCEPT !["cb"] = "Draw.free"]
    /\ UNCHANGED <<iounitSize, nextId, drawMu>>
    /\ UNCHANGED <<varsCaller, windows, windowFrame, loc>>
    /\ UNCHANGED <<varsCodec, varsMouse>>
    /\ UNCHANGED deque

\* w.s.ctl.FreeID(imageId), and Draw returns.
WindowDrawFree ==
    /\ pc["cb"] = "Draw.free"
    /\ data' = Append(data, sendMessage("f", freeIDMsg(loc["cb"].imageId), "caller",
                                        "FreeID", FALSE))
    /\ pc' = [pc EXCEPT !["cb"] = "returned"]
    /\ UNCHANGED <<iounitSize, nextId, drawMu>>
    /\ UNCHANGED <<varsCaller, windows, windowFrame, loc>>
    /\ UNCHANGED <<varsCodec, varsMouse>>
    /\ UNCHANGED deque

NextWindowDraw ==
    \/ WindowDrawCall \/ ReadBand \/ WindowDrawAlloc \/ WindowDrawUpload
    \/ CompressedRow \/ SplitRows \/ WindowDrawComposite \/ WindowDrawFree

SpecWindowDraw == InitWindowDraw /\ [][NextWindowDraw]_vars

\* The arguments and locals of the call in progress or just over.
DrawArgs == loc["cb"]

\* A thread that can take a step of Draw takes it.
LiveWindowDraw == SpecWindowDraw /\ WF_vars(NextWindowDraw)

(***************************************************************************)
(* Composition with a colour: uploadImpl.Fill (uploadimpl.go:50-62) and    *)
(* windowImpl.DrawUniform (uploadimpl.go:235-257), called by the same      *)
(* thread between its Draw calls, one call of the protocol client a step.  *)
(* The deferred FreeID calls run when the function returns, last deferred  *)
(* first.                                                                   *)
(***************************************************************************)
FillRects == {Rect(0, 0, 8, 8), Rect(2, 3, 10, 11)}

FillColors == {White, Black}

\* An allocation by this thread: nextId goes up, 'b' is written.
ComposeAlloc(newId, a) ==
    /\ nextId' = newId
    /\ data' = Append(data, sendMessage("b", allocBufferMsg(newId, a), "caller",
                                        "AllocBuffer", FALSE))

ComposeFree(id) ==
    data' = Append(data, sendMessage("f", freeIDMsg(id), "caller", "FreeID", FALSE))

\* Fill(dr, src, op) on the window or on the texture: fillID is allocated.
FillCall ==
    /\ pc["cb"] \in {"idle", "returned"}
    /\ nextId < DrawTextureId + MaxDraws
    /\ \E dr \in FillRects, c \in FillColors, op \in {"Src", "Over"},
          dst \in {DrawWindowId, DrawTextureId} :
          LET rect == Rect(0, 0, RectSize(dr).X, RectSize(dr).Y)
              fillID == allocId(nextId)
          IN  /\ nextId' = fillID
              /\ data' = <<sendMessage("b",
                              allocBufferMsg(fillID, [refresh |-> 0, repl |-> TRUE,
                                                      r |-> Rect(0, 0, 1, 1),
                                                      clipr |-> rect, color |-> c]),
                              "caller", "AllocBuffer", FALSE)>>
              /\ loc' = [loc EXCEPT !["cb"] =
                            [NoDraw EXCEPT !.fn = "Fill", !.sr = rect, !.op = op,
                                           !.newRectangle = dr, !.imageId = fillID,
                                           !.dst = dst, !.color = c]]
    /\ pc' = [pc EXCEPT !["cb"] = "Fill.mask"]
    /\ call' = NoRead
    /\ UNCHANGED <<iounitSize, drawMu, ret, issued, freedIds, windows, windowFrame, deque>>
    /\ UNCHANGED <<varsCodec, varsMouse>>

\* maskID := u.ctl.AllocBuffer(0, true, 1x1, rect, color.Black)
FillMask ==
    /\ pc["cb"] = "Fill.mask"
    /\ LET maskID == allocId(nextId)
       IN  /\ ComposeAlloc(maskID, [refresh |-> 0, repl |-> TRUE, r |-> Rect(0, 0, 1, 1),
                                    clipr |-> loc["cb"].sr, color |-> Black])
           /\ loc' = [loc EXCEPT !["cb"] = [@ EXCEPT !.maskID = maskID]]
    /\ pc' = [pc EXCEPT !["cb"] = "Fill.Draw"]
    /\ UNCHANGED <<iounitSize, drawMu, windows, windowFrame, deque>>
    /\ UNCHANGED <<varsCodec, varsMouse, varsCaller>>

\* u.ctl.Draw(u.imageId, fillID, maskID, dr, image.ZP, image.ZP, op)
FillDraw ==
    /\ pc["cb"] = "Fill.Draw"
    /\ data' = data \o drawMessages(loc["cb"].dst, loc["cb"].imageId, loc["cb"].maskID,
                                    loc["cb"].newRectangle, ZP, ZP, loc["cb"].op)
    /\ pc' = [pc EXCEPT !["cb"] = "Fill.free"]
    /\ UNCHANGED <<iounitSize, nextId, drawMu, windows, windowFrame, loc, deque>>
    /\ UNCHANGED <<varsCodec, varsMouse, varsCaller>>

\* defer u.ctl.FreeID(fillID), deferred last
FillFree ==
    /\ pc["cb"] = "Fill.free"
    /\ ComposeFree(loc["cb"].imageId)
    /\ pc' = [pc EXCEPT !["cb"] = "Fill.freeMask"]
    /\ UNCHANGED <<iounitSize, nextId, drawMu, windows, windowFrame, loc, deque>>
    /\ UNCHANGED <<varsCodec, varsMouse, varsCaller>>

\* Faulty variant of FillFreeMask: Fill returns without freeing the mask.
FillFreeMaskSkipped ==
    /\ pc["cb"] = "Fill.freeMask"
    /\ pc' = [pc EXCEPT !["cb"] = "returned"]
    /\ UNCHANGED <<varsCtl, windows, windowFrame, loc, deque>>
    /\ UNCHANGED <<varsCodec, varsMouse, varsCaller>>

\* defer u.ctl.FreeID(maskID), and Fill has returned.
FillFreeMask ==
    /\ pc["cb"] = "Fill.freeMask"
    /\ ComposeFree(loc["cb"].maskID)
    /\ pc' = [pc EXCEPT !["cb"] = "returned"]
    /\ UNCHANGED <<iounitSize, nextId, drawMu, windows, windowFrame, loc, deque>>
    /\ UNCHANGED <<varsCodec, varsMouse, varsCaller>>

\* DrawUniform(src2dst, src, sr, op, opts): newRectangle by either path, and
\* colorID := w.s.ctl.AllocBuffer(0, true, newRectangle, sr, src)
DrawUniformCall ==
    /\ pc["cb"] \in {"idle", "returned"}
    /\ nextId < DrawTextureId + MaxDraws
    /\ \E m \in Matrices, sr \in SrcRects, c \in FillColors, op \in {"Src", "Over"} :
          LET newRectangle == IF IsTranslation(m) THEN translatedRect(m, sr)
                              ELSE affineTransform(m, sr)
              colorID == allocId(nextId)
          IN  /\ nextId' = colorID
              /\ data' = <<sendMessage("b",
                              allocBufferMsg(colorID, [refresh |-> 0, repl |-> TRUE,
                                                       r |-> newRectangle, clipr |-> sr,
                                                       color |-> c]),
                              "caller", "AllocBuffer", FALSE)>>
              /\ loc' = [loc EXCEPT !["cb"] =
                            [NoDraw EXCEPT !.fn = "DrawUniform", !.m = m, !.sr = sr,
                                           !.op = op, !.newRectangle = newRectangle,
                                           !.imageId = colorID, !.dst = windows[1],
                                           !.color = c]]
    /\ pc' = [pc EXCEPT !["cb"] = "Uniform.Draw"]
    /\ call' = NoRead
    /\ UNCHANGED <<iounitSize, drawMu, ret, issued, freedIds, windows, windowFrame, deque>>
    /\ UNCHANGED <<varsCodec, varsMouse>>

\* w.s.ctl.Draw(w.imageId, colorID, colorID, newRectangle, sr.Min or ZP, ZP, op)
DrawUniformDraw ==
    /\ pc["cb"] = "Uniform.Draw"
    /\ LET srcp == IF IsTranslation(loc["cb"].m) THEN loc["cb"].sr.Min ELSE ZP
       IN  data' = data \o drawMessages(loc["cb"].dst, loc["cb"].imageId,
                                        loc["cb"].imageId, loc["cb"].newRectangle,
                                        srcp, ZP, loc["cb"].op)
    /\ pc' = [pc EXCEPT !["cb"] = "Uniform.free"]
    /\ UNCHANGED <<iounitSize, nextId, drawMu, windows, windowFrame, loc, deque>>
    /\ UNCHANGED <<varsCodec, varsMouse, varsCaller>>

\* defer w.s.ctl.FreeID(colorID), and DrawUniform has returned.
DrawUniformFree ==
    /\ pc["cb"] = "Uniform.free"
    /\ ComposeFree(loc["cb"].imageId)
    /\ pc' = [pc EXCEPT !["cb"] = "returned"]
    /\ UNCHANGED <<iounitSize, nextId, drawMu, windows, windowFrame, loc, deque>>
    /\ UNCHANGED <<varsCodec, varsMouse, varsCaller>>

NextCompose ==
    \/ FillCall \/ FillMask \/ FillDraw \/ FillFree \/ FillFreeMask
    \/ DrawUniformCall \/ DrawUniformDraw \/ DrawUniformFree
    \/ WindowDrawCall \/ ReadBand \/ WindowDrawAlloc \/ WindowDrawUpload
    \/ CompressedRow \/ SplitRows \/ WindowDrawComposite \/ WindowDrawFree

SpecCompose == InitWindowDraw /\ [][NextCompose]_vars

\* Where in data the composite 'd' of the call is.
CompositeAt == CHOOSE k \in 1..Len(data) : data[k].cmd = "d"

\* C26: when a call of Fill, of DrawUniform or of Draw on its transforming
\* path has returned, every id it allocated with a 'b' was freed once by an
\* 'f' written after the call's 'd', and it freed nothing else: the ids
\* live after the call are those live before it.
C26_TransientsFreed ==
    (pc = [t \in {"cb"} |-> "returned"] /\ ~(DrawArgs.fn = "Draw" /\ IsTranslation(DrawArgs.m)))
        =>
        /\ \E k \in 1..Len(data) : data[k].cmd = "b"
        /\ \A k \in 1..Len(data) :
              data[k].cmd = "b" =>
                  /\ Cardinality({j \in 1..Len(data) :
                        data[j].cmd = "f" /\ data[j].val.id = data[k].val.id}) = 1
                  /\ \E j \in (k + 1)..Len(data) :
                        /\ data[j].cmd = "f" /\ data[j].val.id = data[k].val.id
                        /\ j > CompositeAt
        /\ \A j \in 1..Len(data) :
              data[j].cmd = "f" =>
                  \E k \in 1..(j - 1) : data[k].cmd = "b" /\ data[k].val.id = data[j].val.id

\* Fill has returned after a Draw that took the transforming path: two ids
\* allocated, both freed after the 'd'.
C26_Witness ==
    /\ pc = [t \in {"cb"} |-> "returned"]
    /\ DrawArgs.fn = "Fill"
    /\ nextId = DrawTextureId + 3
    /\ Len(data) = 6
    /\ data[5].cmd = "f" /\ data[5].val.id = DrawArgs.imageId
    /\ data[6].cmd = "f" /\ data[6].val.id = DrawArgs.maskID

LinearPartIsIdentity ==
    DrawArgs.m[1] = 4 /\ DrawArgs.m[2] = 0 /\ DrawArgs.m[4] = 0 /\ DrawArgs.m[5] = 4

\* C12: a Draw call whose matrix has the linear part (1,0 / 0,1) has written
\* one 'O' and one 'd' and nothing else; the 'd' goes to a rectangle of
\* srcRect's size whose minimum is (tx, ty) without their fractions, and
\* takes the texture as source and as mask.
C12_TranslationDraw ==
    (pc = [t \in {"cb"} |-> "returned"] /\ LinearPartIsIdentity) =>
        /\ Len(data) = 2
        /\ data[1].cmd = "O" /\ data[2].cmd = "d"
        /\ \A k \in 1..Len(data) : data[k].cmd \notin {"r", "b", "y", "Y", "f"}
        /\ data[2].val.r.Min = Pt(TruncQ(DrawArgs.m[3]), TruncQ(DrawArgs.m[6]))
        /\ RectSize(data[2].val.r) = RectSize(DrawArgs.sr)
        /\ data[2].val.srcid = DrawTextureId
        /\ data[2].val.maskid = DrawTextureId

\* Draw by (-1.5, 0) of the rectangle (1,1)-(9,5) has returned: the 'd' goes
\* to (-1,0)-(7,4).
C12_Witness ==
    /\ pc = [t \in {"cb"} |-> "returned"]
    /\ DrawArgs.m = <<4, 0, -6, 0, 4, 0>> /\ DrawArgs.sr = Rect(1, 1, 9, 5)
    /\ Len(data) = 2 /\ data[2].val.r = Rect(-1, 0, 7, 4)

\* The messages of a Draw call that took the transforming path and returned:
\* nr requests 'r' on the texture, one 'b' of a new id T as large as the
\* bounds of the transformed srcRect, nu uploads into T, 'O' and 'd' from T
\* into the window, and last the 'f' of T.
TransformSequence ==
    LET T == DrawArgs.imageId
        bounds == affineTransform(DrawArgs.m, DrawArgs.sr)
    IN  \E nr \in 1..Len(data), nu \in 1..Len(data) :
           /\ Len(data) = nr + 1 + nu + 3
           /\ \A k \in 1..nr :
                 data[k].cmd = "r" /\ data[k].val.id = DrawTextureId
           /\ data[nr + 1].cmd = "b" /\ data[nr + 1].val.id = T
           /\ data[nr + 1].val.r = Rect(0, 0, RectSize(bounds).X, RectSize(bounds).Y)
           /\ \A k \in (nr + 2)..(nr + 1 + nu) :
                 data[k].cmd \in {"y", "Y"} /\ data[k].val.id = T
           /\ data[nr + nu + 2].cmd = "O"
           /\ data[nr + nu + 3].cmd = "d"
           /\ data[nr + nu + 3].val.dstid = windows[1]
           /\ data[nr + nu + 3].val.srcid = T /\ data[nr + nu + 3].val.maskid = T
           /\ data[nr + nu + 4].cmd = "f" /\ data[nr + nu + 4].val.id = T
           /\ T \notin {DrawTextureId, windows[1]}

MaxRecords == 2

MaxTextures == 1

SessionThreads == {"cb", "mouse", "main"}

\* What the handler reads from /dev/mouse here.
SessionRecords == {Printed(10, 20, m) : m \in {0, 3}}

NoEvent == [ev |-> "none"]

\* What readWctl gives after a resize: frames of one size at two places.
SessionFrames == Frames \cup {Rect(6, 5, 22, 13)}

\* A thread's locals: records read or textures made (n), loop index (i), the
\* register of AllocBuffer (id), the events of the record still to be sent
\* (pending) and how many were sent on the channel so far (made), the event
\* Main received (mEv), whether the window was released (released).
SessionLocals ==
    [n |-> 0, i |-> 0, id |-> 0, pending |-> <<>>, made |-> 0, mEv |-> NoEvent,
     released |-> FALSE]

InitSession ==
    /\ iounitSize = 65535
    /\ nextId = 2 + NumWindows
    /\ drawMu = "free"
    /\ data = <<>>
    /\ windows = [k \in 1..NumWindows |-> 2 + k]
    /\ windowFrame = Rect(4, 4, 12, 12)
    /\ pc = [t \in SessionThreads |-> IF t = "main" THEN "select" ELSE "idle"]
    /\ loc = [t \in SessionThreads |-> SessionLocals]
    /\ deque = <<>>
    /\ CodecIdle /\ MouseIdle /\ CallerIdle

\* ---- DrawCtrler.AllocBuffer (drawctl.go:208-252), access by access; no
\* ---- mutex is taken.  "d.nextId += 1" is a load and a store.
AllocBufferLoad(t, from) ==
    /\ pc[t] = from
    /\ loc' = [loc EXCEPT ![t] = [@ EXCEPT !.id = nextId]]
    /\ Goto(t, "Alloc.store")
    /\ UNCHANGED <<varsCtl, windows, windowFrame, deque>>
    /\ UNCHANGED <<varsCodec, varsMouse, varsCaller>>

AllocBufferStore(t) ==
    /\ pc[t] = "Alloc.store"
    /\ nextId' = allocId(loc[t].id)
    /\ loc' = [loc EXCEPT ![t] = [@ EXCEPT !.id = allocId(loc[t].id)]]
    /\ Goto(t, "Alloc.newId")
    /\ UNCHANGED <<iounitSize, drawMu, data, windows, windowFrame, deque>>
    /\ UNCHANGED <<varsCodec, varsMouse, varsCaller>>

\* newId := d.nextId: the value just stored, kept in a register, or the field
\* read again.
AllocBufferNewId(t) ==
    /\ pc[t] = "Alloc.newId"
    /\ \E v \in {loc[t].id, nextId} :
          loc' = [loc EXCEPT ![t] = [@ EXCEPT !.id = v]]
    /\ Goto(t, "Alloc.b")
    /\ UNCHANGED <<varsCtl, windows, windowFrame, deque>>
    /\ UNCHANGED <<varsCodec, varsMouse, varsCaller>>

\* ---- the callback thread
\* s.NewTexture(size) into newTextureImpl (texture.go:30-37) and
\* newUploadImpl (uploadimpl.go:64-73): AllocBuffer
TextureAllocLoad ==
    /\ loc["cb"].n < MaxTextures
    /\ AllocBufferLoad("cb", "idle")

\* d.sendMessage('b', msg); the texture holds newId.
TextureAllocSend ==
    /\ pc["cb"] = "Alloc.b"
    /\ Write("cb", "b",
             allocBufferMsg(loc["cb"].id,
                            [refresh |-> 0, repl |-> FALSE, r |-> TextureRect,
                             clipr |-> TextureRect, color |-> Transparent]),
             "AllocBuffer")
    /\ loc' = [loc EXCEPT !["cb"] = [@ EXCEPT !.n = @ + 1]]
    /\ Goto("cb", "idle")
    /\ UNCHANGED <<iounitSize, nextId, drawMu, windows, windowFrame, deque>>
    /\ UNCHANGED <<varsCodec, varsMouse, varsCaller>>

\* w.Release() on the active window (uploadimpl.go:27-32): u.resources is
\* empty, then u.ctl.FreeID(u.imageId).
WindowRelease ==
    /\ pc["cb"] = "idle" /\ ~loc["cb"].released
    /\ Write("cb", "f", freeIDMsg(windows[NumWindows]), "Release")
    /\ loc' = [loc EXCEPT !["cb"] = [@ EXCEPT !.released = TRUE]]
    /\ UNCHANGED <<iounitSize, nextId, drawMu, windows, windowFrame, pc, deque>>
    /\ UNCHANGED <<varsCodec, varsMouse, varsCaller>>

\* f(s) returns.
CallbackReturn ==
    /\ pc["cb"] = "idle"
    /\ Goto("cb", "doneChan")
    /\ UNCHANGED <<varsCtl, windows, windowFrame, loc, deque>>
    /\ UNCHANGED <<varsCodec, varsMouse, varsCaller>>

\* doneChan <- true, received by "case <-doneChan: return" (main.go:41, 61-62)
DoneHandoff ==
    /\ pc["cb"] = "doneChan" /\ pc["main"] = "select"
    /\ pc' = [pc EXCEPT !["cb"] = "release", !["main"] = "return"]
    /\ UNCHANGED <<varsCtl, windows, windowFrame, loc, deque>>
    /\ UNCHANGED <<varsCodec, varsMouse, varsCaller>>

\* s.release() (part_001:56-61): s.ctl.FreeScreen(s.screenId)
ScreenRelease ==
    /\ pc["cb"] = "release"
    /\ Write("cb", "F", [id |-> ScreenSlot], "FreeScreen")
    /\ Goto("cb", "released")
    /\ UNCHANGED <<iounitSize, nextId, drawMu, windows, windowFrame, loc, deque>>
    /\ UNCHANGED <<varsCodec, varsMouse, varsCaller>>

\* ---- the mouse thread
\* A 'm' record is read and parsed; its events are sent one by one, and
\* prevmask = buttons ends the iteration (wctl.go:113-261).  Beside each
\* event are kept the number of its record (rec), its place among the
\* record's events (k), the coordinates it was made with (host) and the
\* frame's origin when the record was read (origin).
SessionPoll ==
    /\ pc["mouse"] = "idle" /\ loc["mouse"].n < MaxRecords
    /\ \E rec \in SessionRecords :
          LET h == handleRecord(MouseRecord(rec), prevmask)
              n == loc["mouse"].n + 1
              tagged == [k \in 1..Len(h.sent) |->
                            [ev |-> "mouse", X |-> h.sent[k].X, Y |-> h.sent[k].Y,
                             Button |-> h.sent[k].Button,
                             Direction |-> h.sent[k].Direction, rec |-> n, k |-> k,
                             host |-> Pt(h.sent[k].X, h.sent[k].Y),
                             origin |-> windowFrame.Min]]
          IN  /\ loc' = [loc EXCEPT !["mouse"] = [@ EXCEPT !.n = n, !.pending = tagged]]
              /\ prevmask' = h.prevmask
    /\ Goto("mouse", "notifier")
    /\ UNCHANGED <<varsCtl, windows, windowFrame, deque, mouseLog>>
    /\ UNCHANGED <<varsCodec, varsCaller>>

\* notifier <- &mouse.Event{...}, received by "case mEv := <-mouseEvent"
\* (main.go:49); after the last event the handler reads the next record.
MouseHandoff ==
    /\ pc["mouse"] = "notifier" /\ pc["main"] = "select"
    /\ LET rest == Tail(loc["mouse"].pending)
       IN  /\ loc' = [loc EXCEPT !["mouse"] = [@ EXCEPT !.pending = rest,
                                                         !.made = @ + 1],
                                 !["main"] = [@ EXCEPT !.mEv = Head(loc["mouse"].pending)]]
           /\ pc' = [pc EXCEPT !["mouse"] = IF rest = <<>> THEN "idle" ELSE "notifier",
                               !["main"] = "adjust"]
    /\ UNCHANGED <<varsCtl, windows, windowFrame, deque>>
    /\ UNCHANGED <<varsCodec, varsMouse, varsCaller>>

\* A 'r' record: readWctl, s.windowFrame = windowSize (wctl.go:94-104)
SessionResize ==
    /\ pc["mouse"] = "idle" /\ loc["mouse"].n < MaxRecords
    /\ \E f \in SessionFrames : windowFrame' = f
    /\ loc' = [loc EXCEPT !["mouse"] = [@ EXCEPT !.n = @ + 1]]
    /\ Goto("mouse", "Realloc.Lock")
    /\ UNCHANGED <<varsCtl, windows, deque>>
    /\ UNCHANGED <<varsCodec, varsMouse, varsCaller>>

\* s.ctl.AllocBuffer(0, false, sz, sz, color.RGBA{0, 0, 0, 0}) in
\* repositionWindow's loop
RepositionAllocLoad ==
    /\ loc["mouse"].i <= Len(windows)
    /\ AllocBufferLoad("mouse", "reposition.b")

\* d.sendMessage('b', msg); s.windows[i].imageId = newId
RepositionAllocSend ==
    /\ pc["mouse"] = "Alloc.b"
    /\ LET sz == Rect(0, 0, RectSize(windowFrame).X, RectSize(windowFrame).Y)
       IN  Write("mouse", "b",
                 allocBufferMsg(loc["mouse"].id,
                                [refresh |-> 0, repl |-> FALSE, r |-> sz, clipr |-> sz,
                                 color |-> Transparent]),
                 "AllocBuffer")
    /\ windows' = [windows EXCEPT ![loc["mouse"].i] = loc["mouse"].id]
    /\ loc' = [loc EXCEPT !["mouse"] = [@ EXCEPT !.i = @ + 1]]
    /\ Goto("mouse", "reposition.f")
    /\ UNCHANGED <<iounitSize, nextId, drawMu, windowFrame, deque>>
    /\ UNCHANGED <<varsCodec, varsMouse, varsCaller>>

\* ---- the select loop of Main
\* s.w != nil; mEv.X -= float32(s.windowFrame.Min.X)
MainAdjust ==
    /\ pc["main"] = "adjust"
    /\ loc' = [loc EXCEPT !["main"] = [@ EXCEPT !.mEv.X = @ - windowFrame.Min.X]]
    /\ Goto("main", "forward")
    /\ UNCHANGED <<varsCtl, windows, windowFrame, deque>>
    /\ UNCHANGED <<varsCodec, varsMouse, varsCaller>>

\* mEv.Y -= float32(s.windowFrame.Min.Y); s.w.Deque.Send(*mEv)
MainForward ==
    /\ pc["main"] = "forward"
    /\ deque' = Append(deque, [loc["main"].mEv EXCEPT !.Y = @ - windowFrame.Min.Y])
    /\ loc' = [loc EXCEPT !["main"] = [@ EXCEPT !.mEv = NoEvent]]
    /\ Goto("main", "select")
    /\ UNCHANGED <<varsCtl, windows, windowFrame>>
    /\ UNCHANGED <<varsCodec, varsMouse, varsCaller>>

\* Main returns and the process exits: every thread stops where it is.
MainReturn ==
    /\ pc["main"] = "return"
    /\ pc' = [t \in DOMAIN pc |-> "exited"]
    /\ UNCHANGED <<varsCtl, windows, windowFrame, loc, deque>>
    /\ UNCHANGED <<varsCodec, varsMouse, varsCaller>>

NextSession ==
    \/ TextureAllocLoad \/ TextureAllocSend \/ WindowRelease
    \/ CallbackReturn \/ DoneHandoff \/ ScreenRelease
    \/ SessionPoll \/ MouseHandoff \/ SessionResize
    \/ ReallocLock \/ ReallocFree \/ ReallocAlloc
    \/ RepositionAttach \/ RepositionFree
    \/ RepositionAllocLoad \/ RepositionAllocSend
    \/ \E t \in {"cb", "mouse"} : AllocBufferStore(t) \/ AllocBufferNewId(t)
    \/ ResizeSize \/ ResizePaint
    \/ MainAdjust \/ MainForward \/ MainReturn

SpecSession == InitSession /\ [][NextSession]_vars

\* The mouse events in the window's queue.
Forwarded == SelectSeq(deque, LAMBDA v : v.ev = "mouse")

\* Events sent on the channel that Main has not yet put in the queue.
InFlight == IF pc["main"] \in {"adjust", "forward"} THEN 1 ELSE 0

\* C18: the window's queue holds the events in the order the mouse thread
\* produced them, each once and none missing: the events of one poll in the
\* order of the checks, and before every event of a later record, the size
\* and paint events of a later resize record among them.
C18_ArrivalOrder ==
    /\ \A i, j \in 1..Len(deque) :
          i < j =>
              /\ deque[i].rec <= deque[j].rec
              /\ (deque[i].ev = "mouse" /\ deque[j].ev = "mouse"
                    /\ deque[i].rec = deque[j].rec) => deque[i].k < deque[j].k
    /\ Len(Forwarded) + InFlight = loc["mouse"].made

\* The events of one poll are queued in the order of the checks, each once,
\* and no event sent on the channel is lost.
C18_WithinPoll ==
    /\ \A i, j \in 1..Len(Forwarded) :
          i < j =>
              /\ Forwarded[i].rec <= Forwarded[j].rec
              /\ Forwarded[i].rec = Forwarded[j].rec => Forwarded[i].k < Forwarded[j].k
    /\ Len(Forwarded) + InFlight = loc["mouse"].made

\* The 'b' messages written so far.
Allocated == SelectSeq(data, LAMBDA m : m.cmd = "b")

\* The id window w held when re-layout number n began: the one it was
\* created with, or the one the re-layout before gave it.
HeldBefore(w, n) ==
    IF n = 1 THEN 2 + w
    ELSE Relayouts[(n - 2) * RelayoutLen + 3 + 2 * w].val.id

\* C14: one resize writes 'F' and 'A' for the same screen slot, 'n', and for
\* every tracked window an 'f' of the id it held and a 'b' of a fresh id at
\* the new frame's size; afterwards the windows hold distinct fresh ids: no
\* id a window holds was given to another image, and the list entry of each
\* window, that of the active window among them, is the id of its 'b'.
C14_ResizeRelayout ==
    LET sz == Rect(0, 0, RectSize(windowFrame).X, RectSize(windowFrame).Y)
    IN  /\ \A k \in 1..Len(Relayouts) :
              LET j == (k - 1) % RelayoutLen
                  n == ((k - 1) \div RelayoutLen) + 1
                  m == Relayouts[k]
              IN  /\ j = 0 => m.cmd = "F" /\ m.val.id = ScreenSlot
                  /\ j = 1 => m.cmd = "A" /\ m.val.id = Relayouts[k - 1].val.id
                  /\ j = 2 => m.cmd = "n"
                  /\ (j > 2 /\ j % 2 = 1) =>
                        m.cmd = "f" /\ m.val.id = HeldBefore((j - 1) \div 2, n)
                  /\ (j > 2 /\ j % 2 = 0) =>
                        /\ m.cmd = "b" /\ m.val.r = sz
                        /\ windows[(j - 2) \div 2] = m.val.id
                            \/ \E k2 \in (k + 1)..Len(Relayouts) :
                                  (k2 - 1) % RelayoutLen = j
        /\ \A a, b \in 1..Len(Allocated) :
              a # b => Allocated[a].val.id # Allocated[b].val.id
        /\ \A a \in 1..Len(Allocated) : Allocated[a].val.id > 2 + NumWindows
        /\ \A v, w \in 1..Len(windows) : v # w => windows[v] # windows[w]

\* The order and the arguments of the messages of a resize alone.
C14_MessageOrder ==
    \A k \in 1..Len(Relayouts) :
        LET j == (k - 1) % RelayoutLen
            n == ((k - 1) \div RelayoutLen) + 1
            m == Relayouts[k]
        IN  /\ j = 0 => m.cmd = "F" /\ m.val.id = ScreenSlot
            /\ j = 1 => m.cmd = "A" /\ m.val.id = Relayouts[k - 1].val.id
            /\ j = 2 => m.cmd = "n"
            /\ (j > 2 /\ j % 2 = 1) =>
                  m.cmd = "f" /\ m.val.id = HeldBefore((j - 1) \div 2, n)
            /\ (j > 2 /\ j % 2 = 0) => m.cmd = "b"

\* C15: when release has written the 'F' of the screen slot, an 'f' for the
\* id of every tracked window was written before it, and release wrote no
\* second 'F'.
C15_ShutdownFreesWindows ==
    LET Released(k) == data[k].cmd = "F" /\ data[k].fn = "FreeScreen"
    IN  /\ \A k \in 1..Len(data) :
              Released(k) =>
                  \A w \in 1..Len(windows) :
                      \E j \in 1..(k - 1) :
                          data[j].cmd = "f" /\ data[j].val.id = windows[w]
        /\ \A k, j \in 1..Len(data) : (Released(k) /\ Released(j)) => k = j

\* release writes 'F' once at most.
C15_ReleaseOnce ==
    \A k, j \in 1..Len(data) :
        (data[k].fn = "FreeScreen" /\ data[j].fn = "FreeScreen") => k = j

(***************************************************************************)
(* affineTransform (uploadimpl.go:103-142) on its own: one call a step, on *)
(* a matrix and a rectangle drawn from the families below.  Rectangles     *)
(* are taken as given: empty ones and ones with Min beyond Max are among   *)
(* them.                                                                    *)
(***************************************************************************)
IdentityMatrix == <<Quarter, 0, 0, 0, Quarter, 0>>

AffineMatrices ==
    Matrices \cup {IdentityMatrix,
                   <<-4, 0, 0, 0, -8, 4>>,      \* mirror, scale, translation
                   <<4, -8, -12, 12, 4, 8>>}    \* integer coefficients, all used

AffineCoords == {-3, 0, 2, 5}

AffineRects ==
    {Rect(x0, y0, x1, y1) : x0 \in AffineCoords, y0 \in AffineCoords,
                            x1 \in AffineCoords, y1 \in AffineCoords}

NoAffine == [fn |-> "none", r |-> Rect(0, 0, 0, 0)]

\* A caller about to call affineTransform(m, sr).
InitAffine ==
    /\ \E m \in AffineMatrices, sr \in AffineRects :
          call = [fn |-> "affineTransform", m |-> m, sr |-> sr, pc |-> "start"]
    /\ ret = NoAffine
    /\ issued = <<>> /\ freedIds = {}
    /\ CodecIdle /\ MouseIdle /\ CtlIdle /\ ScreenIdle

\* affineTransform(src2dst, sr) returns.
AffineTransformCall ==
    /\ call.pc = "start"
    /\ call' = [call EXCEPT !.pc = "done"]
    /\ ret' = [fn |-> "affineTransform", r |-> affineTransform(call.m, call.sr)]
    /\ UNCHANGED <<issued, freedIds>>
    /\ UNCHANGED <<varsCodec, varsMouse, varsCtl, varsScreen>>

NextAffine == AffineTransformCall

SpecAffine == InitAffine /\ [][NextAffine]_vars

\* C21: with the identity matrix affineTransform gives back the rectangle it
\* was given, whatever the rectangle: empty, or with Min beyond Max.
C21_IdentityUnchanged ==
    (call.pc = "done" /\ call.m = IdentityMatrix) => ret.r = call.sr

\* With the identity matrix a rectangle with Min <= Max comes back unchanged.
C21_IdentityOnOrdered ==
    (/\ call.pc = "done" /\ call.m = IdentityMatrix
     /\ call.sr.Min.X <= call.sr.Max.X /\ call.sr.Min.Y <= call.sr.Max.Y)
        => ret.r = call.sr

IntegerCoefficients(m) == \A k \in 1..6 : m[k] % Quarter = 0

\* The four corners of sr under a matrix of integer coefficients, computed
\* in whole numbers.
MappedCorners(m, sr) ==
    LET a == m[1] \div Quarter   b == m[2] \div Quarter   tx == m[3] \div Quarter
        c == m[4] \div Quarter   d == m[5] \div Quarter   ty == m[6] \div Quarter
    IN  {Pt(a * x + b * y + tx, c * x + d * y + ty) :
            x \in {sr.Min.X, sr.Max.X}, y \in {sr.Min.Y, sr.Max.Y}}

\* C22: for a matrix of integer coefficients the result of affineTransform
\* has as Min the least and as Max the greatest coordinates of the four
\* mapped corners: it contains the four of them, no smaller rectangle does,
\* and Min <= Max.
C22_BoundingBox ==
    (call.pc = "done" /\ IntegerCoefficients(call.m)) =>
        LET P == MappedCorners(call.m, call.sr)
        IN  /\ \A p \in P : /\ ret.r.Min.X <= p.X /\ p.X <= ret.r.Max.X
                            /\ ret.r.Min.Y <= p.Y /\ p.Y <= ret.r.Max.Y
            /\ \E p \in P : p.X = ret.r.Min.X
            /\ \E p \in P : p.Y = ret.r.Min.Y
            /\ \E p \in P : p.X = ret.r.Max.X
            /\ \E p \in P : p.Y = ret.r.Max.Y
            /\ ret.r.Min.X <= ret.r.Max.X /\ ret.r.Min.Y <= ret.r.Max.Y

\* A matrix that uses all six coefficients on a rectangle with Min beyond Max
\* in X: the extremes come from corners other than the mapped Min and Max.
C22_Witness ==
    /\ call.pc = "done"
    /\ call.m = <<4, -8, -12, 12, 4, 8>>
    /\ call.sr = Rect(5, -3, 0, 2)
    /\ ret.r = Rect(-7, -1, 8, 19)

\* C27: when Main has returned and the process has exited, release has
\* written the 'F' that frees the screen slot.
C27_ReleasedBeforeExit ==
    pc["main"] = "exited" =>
        \E k \in 1..Len(data) : data[k].cmd = "F" /\ data[k].fn = "FreeScreen"

\* What the callback wrote, it wrote before release's 'F'.
C27_ReleaseComesLast ==
    pc["main"] \in {"return", "exited"} =>
        \A k \in 1..Len(data) :
            (data[k].by = "cb" /\ data[k].fn # "FreeScreen") =>
                \A j \in 1..Len(data) : data[j].fn = "FreeScreen" => k < j

\* C29: a mouse event in the window's queue carries the coordinates the
\* translator gave it less the origin of the frame that was current when
\* its record was read; a resize handled after the event was sent on the
\* channel does not change what is subtracted.
C29_FrameAtRead ==
    \A k \in 1..Len(Forwarded) :
        /\ Forwarded[k].X = Forwarded[k].host.X - Forwarded[k].origin.X
        /\ Forwarded[k].Y = Forwarded[k].host.Y - Forwarded[k].origin.Y

\* Every forwarded event had the origin of some frame of the session
\* subtracted, in X and in Y.
C29_SomeFrameSubtracted ==
    \A k \in 1..Len(Forwarded) :
        \E f, g \in SessionFrames \cup {Rect(4, 4, 12, 12)} :
            /\ Forwarded[k].X = Forwarded[k].host.X - f.Min.X
            /\ Forwarded[k].Y = Forwarded[k].host.Y - g.Min.Y

\* The 'b' messages in data whose id is held by an image when message k is
\* written: no 'f' of the id lies between them and k.
LiveAt(k) ==
    {j \in 1..(k - 1) :
        /\ data[j].cmd = "b"
        /\ ~\E f \in (j + 1)..(k - 1) :
              data[f].cmd = "f" /\ data[f].val.id = data[j].val.id}

\* C30: AllocBuffer on the callback thread and on the mouse thread never
\* return the same id: no 'b' is written with an id that an image
\* allocated before still holds.
C30_LiveIdsDistinct ==
    \A k \in 1..Len(data) :
        data[k].cmd = "b" =>
            \A j \in LiveAt(k) : data[j].val.id # data[k].val.id

\* The callback thread is inside AllocBuffer or has been.
CallbackAllocates ==
    \/ pc["cb"] \in {"Alloc.store", "Alloc.newId", "Alloc.b"}
    \/ \E k \in 1..Len(data) : data[k].cmd = "b" /\ data[k].by = "cb"

\* As long as the mouse thread alone has called AllocBuffer, the ids it
\* returned are distinct from those still held.
C30_OneThreadDistinct ==
    ~CallbackAllocates =>
        \A k \in 1..Len(data) :
            data[k].cmd = "b" =>
                \A j \in LiveAt(k) : data[j].val.id # data[k].val.id

\* The 'd' messages of composition calls (windowImpl.Draw), by place.
Composites == {k \in 1..Len(data) : data[k].cmd = "d" /\ data[k].fn = "Draw"}

\* C31: no composite of a composition call names as its destination a
\* window id for which the resize has already written the 'f': a window's
\* id is not used on the data channel after the re-layout freed it.
C31_NoUseAfterResizeFree ==
    \A k \in Composites :
        ~\E j \in 1..(k - 1) :
            /\ data[j].cmd = "f" /\ data[j].by = "mouse"
            /\ data[j].val.id = data[k].val.dstid

\* The destination of a composite is an id the active window has held: the
\* one it was created with or one a re-layout allocated before.
C31_DestinationWasWindow ==
    \A k \in Composites :
        \/ data[k].val.dstid = 2 + NumWindows
        \/ \E j \in 1..(k - 1) :
              /\ data[j].cmd = "b" /\ data[j].by = "mouse"
              /\ data[j].val.id = data[k].val.dstid

\* Message m names the image id: it frees it or composites with it.
References(m, id) ==
    \/ m.cmd = "f" /\ m.val.id = id
    \/ m.cmd = "d" /\ id \in {m.val.dstid, m.val.srcid, m.val.maskid}

\* The 'f' messages of uploadImpl.Release, by place.
Releases == {k \in 1..Len(data) : data[k].cmd = "f" /\ data[k].fn = "Release"}

\* C32: after a window's Release has freed its primary id, no later
\* message on the data channel names that id: it is not composited and a
\* following resize does not free it a second time.
C32_NoReferenceAfterRelease ==
    \A k \in Releases :
        \A j \in (k + 1)..Len(data) : ~References(data[j], data[k].val.id)

\* Release frees an id the window has held: the one it was created with or
\* one a re-layout allocated for it before.
C32_ReleaseFreesHeldId ==
    \A k \in Releases :
        \/ data[k].val.id = 2 + NumWindows
        \/ \E j \in 1..(k - 1) :
              /\ data[j].cmd = "b" /\ data[j].by = "mouse"
              /\ data[j].val.id = data[k].val.id

\* An iteration of the split loop of ReplaceSubimage or ReadSubimage.
SplitIteration ==
    /\ call.fn \in {"ReplaceSubimage", "ReadSubimage"}
    /\ call.pc = "loop"
    /\ call' # call \/ data' # data

\* C33: ReplaceSubimage and ReadSubimage terminate for every non-empty
\* rectangle and every positive transfer unit: the row cursor of the split
\* loop is greater after every iteration than before it.
C33_CursorAdvances ==
    [][SplitIteration /\ call'.pc # "panic" => call'.i > call.i]_vars

\* Where the transfer unit holds one row or more, the row cursor is greater
\* after every iteration.
C33_CursorAdvancesByRows ==
    [][(SplitIteration /\ call'.pc # "panic"
          /\ RectSize(call.r).X * 4 <= iounitSize) => call'.i > call.i]_vars

\* The events sent on notifier by the first n iterations, in order.
RECURSIVE SentUpTo(_)
SentUpTo(n) == IF n = 0 THEN <<>> ELSE SentUpTo(n - 1) \o mouseLog[n].sent

\* The directions of the events of button name, in the order sent.
DirectionsOf(name) ==
    LET evs == SelectSeq(SentUpTo(Len(mouseLog)), LAMBDA e : e.Button = name)
    IN  [k \in 1..Len(evs) |-> evs[k].Direction]

\* C34: across any sequence of records, well-formed or not, the events of
\* each of the five tracked buttons alternate press, release, press, ...,
\* beginning with a press.
C34_PressReleaseAlternate ==
    \A b \in 1..Len(TrackedButtons) :
        LET d == DirectionsOf(TrackedButtons[b].name)
        IN  \A k \in 1..Len(d) :
                d[k] = IF k % 2 = 1 THEN "DirPress" ELSE "DirRelease"

\* A button was pressed and released, with a record that is not well-formed
\* or a failed read among the iterations.
C34_Witness ==
    /\ Len(mouseLog) = MaxPolls
    /\ \E k \in 1..Len(mouseLog) : mouseLog[k].rec \notin WellFormedRecords
    /\ \E b \in 1..Len(TrackedButtons) :
          Len(DirectionsOf(TrackedButtons[b].name)) >= 2

(***************************************************************************)
(* The select loop of Main with both readers (main.go:44-64), for as long  *)
(* as the readers go on.  "mouse" and "kbd" each read a record, which may  *)
(* block for ever, and send its events on their unbuffered channel, which  *)
(* blocks until Main receives; "cb" returns from f(s) when it likes.  The  *)
(* readers are not bounded here: they can produce events without end.      *)
(* Deque.Send never blocks and nobody reads the queue after the callback   *)
(* has returned, so only its newest MaxQueued entries are kept.            *)
(***************************************************************************)
MaxQueued == 2

DispatchThreads == SessionThreads \cup {"kbd"}

\* The newest MaxQueued entries of q.
Newest(q) == IF Len(q) <= MaxQueued THEN q ELSE SubSeq(q, Len(q) - MaxQueued + 1, Len(q))

InitDispatch ==
    /\ iounitSize = 65535
    /\ nextId = 2 + NumWindows
    /\ drawMu = "free"
    /\ data = <<>>
    /\ windows = [k \in 1..NumWindows |-> 2 + k]
    /\ windowFrame = Rect(4, 4, 12, 12)
    /\ pc = [t \in DispatchThreads |-> IF t = "main" THEN "select" ELSE "idle"]
    /\ loc = [t \in DispatchThreads |-> SessionLocals]
    /\ deque = <<>>
    /\ CodecIdle /\ MouseIdle /\ CallerIdle

\* mouseEvent.Read returns a 'm' record: it is parsed and its events are
\* about to be sent; prevmask = buttons (wctl.go:87-261).
DispatchMousePoll ==
    /\ pc["mouse"] = "idle"
    /\ \E rec \in SessionRecords :
          LET h == handleRecord(MouseRecord(rec), prevmask)
              evs == [k \in 1..Len(h.sent) |->
                         [ev |-> "mouse", X |-> h.sent[k].X, Y |-> h.sent[k].Y,
                          Button |-> h.sent[k].Button,
                          Direction |-> h.sent[k].Direction]]
          IN  /\ loc' = [loc EXCEPT !["mouse"] = [@ EXCEPT !.pending = evs]]
              /\ prevmask' = h.prevmask
    /\ Goto("mouse", "notifier")
    /\ UNCHANGED <<varsCtl, windows, windowFrame, deque, mouseLog>>
    /\ UNCHANGED <<varsCodec, varsCaller>>

\* notifier <- &mouse.Event{...}, received by "case mEv := <-mouseEvent"
DispatchMouseHandoff ==
    /\ pc["mouse"] = "notifier" /\ pc["main"] = "select"
    /\ LET rest == Tail(loc["mouse"].pending)
       IN  /\ loc' = [loc EXCEPT !["mouse"] = [@ EXCEPT !.pending = rest],
                                 !["main"] = [@ EXCEPT !.mEv = Head(loc["mouse"].pending)]]
           /\ pc' = [pc EXCEPT !["mouse"] = IF rest = <<>> THEN "idle" ELSE "notifier",
                               !["main"] = "adjust"]
    /\ UNCHANGED <<varsCtl, windows, windowFrame, deque>>
    /\ UNCHANGED <<varsCodec, varsMouse, varsCaller>>

\* The keyboard reader has read a record and is about to send its event.
DispatchKeyPoll ==
    /\ pc["kbd"] = "idle"
    /\ loc' = [loc EXCEPT !["kbd"] = [@ EXCEPT !.pending = <<[ev |-> "key"]>>]]
    /\ Goto("kbd", "notifier")
    /\ UNCHANGED <<varsCtl, windows, windowFrame, deque>>
    /\ UNCHANGED <<varsCodec, varsMouse, varsCaller>>

\* The key event is sent on keyboardEvent, received by
\* "case kEv := <-keyboardEvent" (main.go:57).
DispatchKeyHandoff ==
    /\ pc["kbd"] = "notifier" /\ pc["main"] = "select"
    /\ loc' = [loc EXCEPT !["kbd"] = [@ EXCEPT !.pending = <<>>],
                          !["main"] = [@ EXCEPT !.mEv = Head(loc["kbd"].pending)]]
    /\ pc' = [pc EXCEPT !["kbd"] = "idle", !["main"] = "forwardKey"]
    /\ UNCHANGED <<varsCtl, windows, windowFrame, deque>>
    /\ UNCHANGED <<varsCodec, varsMouse, varsCaller>>

\* Faulty variant of DispatchForward: Send waits for room in the queue.
DispatchForwardBlocking ==
    /\ pc["main"] = "forward"
    /\ Len(deque) < MaxQueued
    /\ deque' = Append(deque, [loc["main"].mEv EXCEPT !.Y = @ - windowFrame.Min.Y])
    /\ loc' = [loc EXCEPT !["main"] = [@ EXCEPT !.mEv = NoEvent]]
    /\ Goto("main", "select")
    /\ UNCHANGED <<varsCtl, windows, windowFrame>>
    /\ UNCHANGED <<varsCodec, varsMouse, varsCaller>>

\* mEv.Y -= float32(s.windowFrame.Min.Y); s.w.Deque.Send(*mEv)
DispatchForward ==
    /\ pc["main"] = "forward"
    /\ deque' = Newest(Append(deque,
                              [loc["main"].mEv EXCEPT !.Y = @ - windowFrame.Min.Y]))
    /\ loc' = [loc EXCEPT !["main"] = [@ EXCEPT !.mEv = NoEvent]]
    /\ Goto("main", "select")
    /\ UNCHANGED <<varsCtl, windows, windowFrame>>
    /\ UNCHANGED <<varsCodec, varsMouse, varsCaller>>

\* s.w != nil; s.w.Deque.Send(*kEv)
DispatchForwardKey ==
    /\ pc["main"] = "forwardKey"
    /\ deque' = Newest(Append(deque, loc["main"].mEv))
    /\ loc' = [loc EXCEPT !["main"] = [@ EXCEPT !.mEv = NoEvent]]
    /\ Goto("main", "select")
    /\ UNCHANGED <<varsCtl, windows, windowFrame>>
    /\ UNCHANGED <<varsCodec, varsMouse, varsCaller>>

NextDispatch ==
    \/ CallbackReturn \/ DoneHandoff \/ ScreenRelease
    \/ DispatchMousePoll \/ DispatchMouseHandoff
    \/ DispatchKeyPoll \/ DispatchKeyHandoff
    \/ MainAdjust \/ DispatchForward \/ DispatchForwardKey \/ MainReturn

\* Main's own steps are taken when they can be; of the cases of the select
\* that can proceed one is chosen at random, so a case that can proceed
\* again and again is chosen in the end.  Nothing is asked of the readers
\* or of the callback.
SpecDispatch ==
    /\ InitDispatch /\ [][NextDispatch]_vars
    /\ WF_vars(MainAdjust) /\ WF_vars(DispatchForward) /\ WF_vars(DispatchForwardKey)
    /\ WF_vars(MainReturn)
    /\ SF_vars(DoneHandoff)

\* C35: once the callback has returned, Main receives the completion signal
\* and returns, whatever the readers do: the callback thread does not stay
\* blocked on doneChan.
C35_MainReturns == (pc["cb"] = "doneChan") ~> (pc["main"] = "exited")

\* Main has returned while both readers still had an event to send and the
\* queue held events forwarded before.
C35_Witness ==
    /\ pc["main"] = "exited"
    /\ loc["mouse"].pending # <<>>
    /\ loc["kbd"].pending # <<>>
    /\ Len(deque) = MaxQueued

====
